---- MODULE Spec2Model ----
(***************************************************************************)
(* Model of the comparison engine of comparing_tool (src/compare_utils.py, *)
(* src/file_utils.py).  Text is modelled as sequences of one-character     *)
(* strings, so that splitting, trimming, pattern matching and number       *)
(* formatting are computed character by character, as the Python code does.*)
(***************************************************************************)
EXTENDS Integers, Sequences, FiniteSets, TLC

VARIABLES
    value,              \* the token handed to normalizeNumber / inferDataType
    decimal_precision,  \* the decimal_precision argument
    normalized,         \* return value of normalizeNumber
    data_type,          \* return value of inferDataType
    line,               \* the line handed to normalizeCSVLine
    normalized_line,    \* return value of normalizeCSVLine
    content,            \* the line list handed to preprocessContent
    once,               \* preprocessContent(content, p); top_values as first read
    twice,              \* preprocessContent(once, p); top_values as read again
    fs,                 \* the files on disk: path -> lines, or Unreadable
    source_path,        \* source_path of compareFiles, source_dir of compareDirectories
    target_path,        \* target_path of compareFiles, target_dir of compareDirectories
    source_content,     \* the source_content argument (NoContent: not supplied)
    target_content,     \* the target_content argument (NoContent: not supplied)
    generate_catalog,   \* the generate_catalog argument
    recursive,          \* the recursive argument of compareDirectories
    ignore_patterns,    \* the ignore_patterns argument (NoPatterns: None)
    result,             \* the DiffResult compareFiles returned
    results,            \* the list compareDirectories returned
    data_catalog,       \* the DataCatalog createDataCatalog returned
    dirs,               \* the directories on disk
    output_writable,    \* whether args.output can be opened for writing
    fault,              \* where an unexpected exception is raised, if anywhere
    report,             \* whether the HTML report has been written
    exit_code,          \* what main returned (-1: it has not returned)
    pc                  \* position of the caller

vars ==
    <<value, decimal_precision, normalized, data_type, line, normalized_line,
      content, once, twice, fs, source_path, target_path, source_content,
      target_content, generate_catalog, recursive, ignore_patterns, result,
      results, data_catalog, dirs, output_writable, fault, report, exit_code,
      pc>>

\* the variables of the pure-function specifications
textVars ==
    <<value, normalized, data_type, line, normalized_line, content, once, twice,
      data_catalog>>

\* the variables of a comparison call
callVars ==
    <<fs, source_path, target_path, source_content, target_content,
      generate_catalog, recursive, ignore_patterns, result, results,
      dirs, output_writable, fault, report, exit_code>>

\* the variables of a run of main, beyond those of the comparison it makes
mainVars == <<dirs, output_writable, fault, report, exit_code>>

\* Python's None, for a variable that holds text or nothing
None == "None"

\* None where a float, a DataCatalog, a DiffResult or a list of lines is
\* expected (a value of the same shape, so that TLC can compare the two)
NoValue == [kind |-> "none"]
NoCatalog == [none |-> "DataCatalog"]
NoResult == [none |-> "DiffResult"]
NoContent == << <<"None">> >>
NoPatterns == << <<"None">> >>

\* a file that exists and that open() or decoding fails on
Unreadable == << <<"Unreadable">> >>

----------------------------------------------------------------------------
(* Bounds of the input space *)

\* digits before and after the decimal point of a generated decimal token
MaxIntDigits == 2
MaxFracDigits == 3
\* precisions range over -1 .. MaxPrecision (argparse accepts any int)
MaxPrecision == 3
\* comma-separated tokens per generated line, lines per generated content
MaxTokens == 2
MaxLines == 2
\* pieces concatenated into a token handed to inferDataType
MaxPieces == 3
\* lines of a content handed to createDataCatalog, fields of such a line
MaxCatalogLines == 3
MaxFields == 2
\* runs of equal lines in a long content handed to createDataCatalog
MaxRuns == 3

----------------------------------------------------------------------------
(* Characters and Python string primitives *)

Digits == {"0", "1", "2", "3", "4", "5", "6", "7", "8", "9"}

\* str.strip() removes leading and trailing whitespace
Whitespace == {" ", "\t"}

DigitVal(c) ==
    CASE c = "0" -> 0 [] c = "1" -> 1 [] c = "2" -> 2 [] c = "3" -> 3
      [] c = "4" -> 4 [] c = "5" -> 5 [] c = "6" -> 6 [] c = "7" -> 7
      [] c = "8" -> 8 [] c = "9" -> 9

DigitChar(n) ==
    CASE n = 0 -> "0" [] n = 1 -> "1" [] n = 2 -> "2" [] n = 3 -> "3"
      [] n = 4 -> "4" [] n = 5 -> "5" [] n = 6 -> "6" [] n = 7 -> "7"
      [] n = 8 -> "8" [] n = 9 -> "9"

\* a list comprehension, built as a list (TLC evaluates a bare function
\* constructor anew at every application)
List(f) == f \o <<>>

Max(x, y) == IF x >= y THEN x ELSE y
Min(x, y) == IF x <= y THEN x ELSE y

RECURSIVE Pow(_, _)
Pow(b, n) == IF n = 0 THEN 1 ELSE b * Pow(b, n - 1)

RECURSIVE lstrip(_)
lstrip(s) ==
    IF s # <<>> /\ Head(s) \in Whitespace THEN lstrip(Tail(s)) ELSE s

RECURSIVE rstrip(_)
rstrip(s) ==
    IF s # <<>> /\ s[Len(s)] \in Whitespace
    THEN rstrip(SubSeq(s, 1, Len(s) - 1))
    ELSE s

\* str.strip()
strip(s) == rstrip(lstrip(s))

\* `c in s` for a one-character c
Contains(s, c) == \E i \in 1..Len(s) : s[i] = c

\* str.split(d) for a one-character delimiter: always at least one part
RECURSIVE split(_, _)
split(s, d) ==
    IF ~Contains(s, d)
    THEN <<s>>
    ELSE LET i == CHOOSE j \in 1..Len(s) :
                      s[j] = d /\ \A k \in 1..(j - 1) : s[k] # d
         IN  <<SubSeq(s, 1, i - 1)>> \o split(SubSeq(s, i + 1, Len(s)), d)

\* d.join(parts)
RECURSIVE join(_, _)
join(parts, d) ==
    IF parts = <<>> THEN <<>>
    ELSE IF Len(parts) = 1 THEN parts[1]
    ELSE parts[1] \o <<d>> \o join(Tail(parts), d)

AllDigits(s) == \A i \in 1..Len(s) : s[i] \in Digits

\* value of a digit string
RECURSIVE DigitsToNat(_)
DigitsToNat(s) ==
    IF s = <<>> THEN 0
    ELSE 10 * DigitsToNat(SubSeq(s, 1, Len(s) - 1)) + DigitVal(s[Len(s)])

\* str(n) for n >= 0
RECURSIVE NatToStr(_)
NatToStr(n) ==
    IF n < 10 THEN <<DigitChar(n)>>
    ELSE NatToStr(n \div 10) \o <<DigitChar(n % 10)>>

\* n written with exactly w digits (leading zeros), n < 10^w
RECURSIVE ZeroPad(_, _)
ZeroPad(n, w) ==
    IF w = 0 THEN <<>>
    ELSE ZeroPad(n \div 10, w - 1) \o <<DigitChar(n % 10)>>

----------------------------------------------------------------------------
(* normalizeNumber *)

\* number_pattern = re.compile(r'^-?\d+\.\d+$')
Unsigned(s) == IF s # <<>> /\ Head(s) = "-" THEN Tail(s) ELSE s

DotPos(s) == CHOOSE i \in 1..Len(s) : s[i] = "."

number_pattern_match(s) ==
    LET u == Unsigned(s)
    IN  /\ Contains(u, ".")
        /\ LET i == DotPos(u)
           IN  /\ i > 1
               /\ i < Len(u)
               /\ AllDigits(SubSeq(u, 1, i - 1))
               /\ AllDigits(SubSeq(u, i + 1, Len(u)))

\* float(value) of a token matching number_pattern, kept as the exact decimal
\* the token denotes: sign, mantissa N and scale k, value = (-1)^neg * N / 10^k
TokenNeg(s) == s # <<>> /\ Head(s) = "-"
TokenScale(s) == Len(Unsigned(s)) - DotPos(Unsigned(s))
TokenMantissa(s) ==
    LET u == Unsigned(s)
        i == DotPos(u)
    IN  DigitsToNat(SubSeq(u, 1, i - 1) \o SubSeq(u, i + 1, Len(u)))

\* floor(log2(N / 10^k)) for N > 0
RECURSIVE Log2Up(_, _, _)
Log2Up(N, D, e) == IF 2 * D <= N THEN Log2Up(N, 2 * D, e + 1) ELSE e

RECURSIVE Log2Down(_, _, _)
Log2Down(N, D, e) == IF N < D THEN Log2Down(2 * N, D, e - 1) ELSE e

FloorLog2(N, k) ==
    IF N >= Pow(10, k) THEN Log2Up(N, Pow(10, k), 0)
    ELSE Log2Down(N, Pow(10, k), 0)

\* 2^n mod m
RECURSIVE PowMod2(_, _)
PowMod2(n, m) == IF n = 0 THEN 1 % m ELSE (2 * PowMod2(n - 1, m)) % m

\* float(value) is the IEEE-754 double nearest to N / 10^k (53-bit
\* significand).  BinaryError is the sign of double - N/10^k: with
\* e = 52 - floor(log2 x), x * 2^e = N * 2^(e-k) / 5^k, and the double is
\* that quotient rounded to the nearest integer, over 2^e.
BinaryError(N, k) ==
    IF N = 0 THEN 0
    ELSE LET m == Pow(5, k)
             e == 52 - FloorLog2(N, k)
             r == ((N % m) * PowMod2(e - k, m)) % m
         IN  IF r = 0 THEN 0 ELSE IF 2 * r < m THEN -1 ELSE 1

\* the scaled integer round(x * 10^p) that f"{float_value:.{p}f}" prints:
\* the double is rounded correctly to p places, ties of the exact binary
\* value going to the even digit
RoundScaled(N, k, p) ==
    IF p >= k THEN N * Pow(10, p - k)
    ELSE LET unit == Pow(10, k - p)
             q == N \div unit
             rem == N % unit
             up == IF 2 * rem > unit THEN TRUE
                   ELSE IF 2 * rem < unit THEN FALSE
                   ELSE LET b == BinaryError(N, k)
                        IN  IF b > 0 THEN TRUE
                            ELSE IF b < 0 THEN FALSE
                            ELSE q % 2 = 1
         IN  IF up THEN q + 1 ELSE q

\* f"{float_value:.{p}f}" for p >= 0
FormatFixed(neg, N, k, p) ==
    LET q == RoundScaled(N, k, p)
        ip == q \div Pow(10, p)
        fp == q % Pow(10, p)
    IN  (IF neg THEN <<"-">> ELSE <<>>)
        \o NatToStr(ip)
        \o (IF p > 0 THEN <<".">> \o ZeroPad(fp, p) ELSE <<>>)

\* a pattern that lets integers through as numbers:  ^-?\d+(\.\d+)?$
normalizeNumber_LoosePattern(v, p) ==
    IF number_pattern_match(v)
    THEN IF p < 0 THEN v
         ELSE FormatFixed(TokenNeg(v), TokenMantissa(v), TokenScale(v), p)
    ELSE IF Unsigned(v) # <<>> /\ AllDigits(Unsigned(v)) /\ p >= 0
         THEN FormatFixed(TokenNeg(v), DigitsToNat(Unsigned(v)), 0, p)
         ELSE v

\* a negative precision makes the format spec invalid: ValueError, caught,
\* and the token is returned as it is
normalizeNumber(v, p) ==
    IF number_pattern_match(v)
    THEN IF p < 0 THEN v
         ELSE FormatFixed(TokenNeg(v), TokenMantissa(v), TokenScale(v), p)
    ELSE v

----------------------------------------------------------------------------
(* normalizeCSVLine, preprocessContent *)

\* trimming the token after, not before, it is normalized
normalizeCSVLine_StripAfter(ln, p) ==
    IF ln = <<>> THEN ln
    ELSE LET parts == split(ln, ",")
         IN  join(List([i \in 1..Len(parts) |-> strip(normalizeNumber(parts[i], p))]), ",")

normalizeCSVLine(ln, p) ==
    IF ln = <<>> THEN ln
    ELSE LET parts == split(ln, ",")
         IN  join(List([i \in 1..Len(parts) |-> normalizeNumber(strip(parts[i]), p)]), ",")

\* [normalizeCSVLine(line, decimal_precision) for line in content]
RECURSIVE normalize_lines(_, _)
normalize_lines(c, p) ==
    IF c = <<>> THEN <<>>
    ELSE <<normalizeCSVLine(Head(c), p)>> \o normalize_lines(Tail(c), p)

\* normalizing whatever the first line looks like
preprocessContent_AlwaysNormalize(c, p) == normalize_lines(c, p)

preprocessContent(c, p) ==
    IF c = <<>> THEN c
    ELSE IF Contains(c[1], ",")
         THEN normalize_lines(c, p)
         ELSE c

----------------------------------------------------------------------------
(* inferDataType *)

UpperCase ==
    <<"A", "B", "C", "D", "E", "F", "G", "H", "I", "J", "K", "L", "M",
      "N", "O", "P", "Q", "R", "S", "T", "U", "V", "W", "X", "Y", "Z">>

LowerCase ==
    <<"a", "b", "c", "d", "e", "f", "g", "h", "i", "j", "k", "l", "m",
      "n", "o", "p", "q", "r", "s", "t", "u", "v", "w", "x", "y", "z">>

LowerChar(c) ==
    IF \E i \in 1..26 : UpperCase[i] = c
    THEN LowerCase[CHOOSE i \in 1..26 : UpperCase[i] = c]
    ELSE c

\* str.lower()
lower(s) == List([i \in 1..Len(s) |-> LowerChar(s[i])])

\* Python accepts one underscore between two digits of a numeric literal
ValidUnderscores(s) ==
    \A i \in 1..Len(s) :
        s[i] = "_" => /\ i > 1 /\ i < Len(s)
                      /\ s[i - 1] \in Digits /\ s[i + 1] \in Digits

DigitRun(s) ==
    /\ s # <<>>
    /\ \A i \in 1..Len(s) : s[i] \in Digits \cup {"_"}
    /\ ValidUnderscores(s)

Signless(s) == IF s # <<>> /\ Head(s) \in {"+", "-"} THEN Tail(s) ELSE s

\* int(clean_value) does not raise ValueError
int_parses(s) == DigitRun(Signless(s))

ExponentPos(s) == CHOOSE i \in 1..Len(s) : s[i] \in {"e", "E"}

\* digits with at most one point and at least one digit
MantissaOk(m) ==
    /\ \A i \in 1..Len(m) : m[i] \in Digits \cup {"_", "."}
    /\ \E i \in 1..Len(m) : m[i] \in Digits
    /\ Cardinality({i \in 1..Len(m) : m[i] = "."}) <= 1
    /\ ValidUnderscores(m)

\* float(clean_value) does not raise ValueError
float_parses(s) ==
    LET u == Signless(s)
    IN  \/ lower(u) \in { <<"i", "n", "f">>, <<"n", "a", "n">>,
                          <<"i", "n", "f", "i", "n", "i", "t", "y">> }
        \/ IF \E i \in 1..Len(u) : u[i] \in {"e", "E"}
           THEN LET x == ExponentPos(u)
                IN  /\ MantissaOk(SubSeq(u, 1, x - 1))
                    /\ DigitRun(Signless(SubSeq(u, x + 1, Len(u))))
           ELSE MantissaOk(u)

\* \d{lo,hi} over the whole of s
DigitsBetween(s, lo, hi) == Len(s) >= lo /\ Len(s) <= hi /\ AllDigits(s)

\* the three date_patterns, each  ^\d{..}<sep>\d{..}<sep>\d{..}$
DateShape(s, sep, w1, w2, w3) ==
    LET f == split(s, sep)
    IN  /\ Len(f) = 3
        /\ DigitsBetween(f[1], w1[1], w1[2])
        /\ DigitsBetween(f[2], w2[1], w2[2])
        /\ DigitsBetween(f[3], w3[1], w3[2])

date_patterns_match(s) ==
    \/ DateShape(s, "/", <<4, 4>>, <<1, 2>>, <<1, 2>>)
    \/ DateShape(s, "/", <<1, 2>>, <<1, 2>>, <<4, 4>>)
    \/ DateShape(s, "-", <<4, 4>>, <<1, 2>>, <<1, 2>>)

bool_values ==
    { <<"t", "r", "u", "e">>, <<"f", "a", "l", "s", "e">>, <<"y", "e", "s">>,
      <<"n", "o">>, <<"y">>, <<"n">>, <<"1">>, <<"0">>, <<"t">>, <<"f">> }

inferDataType(v) ==
    IF strip(v) = <<>> THEN "null"
    ELSE LET clean_value == strip(v)
         IN  IF int_parses(clean_value) THEN "integer"
             ELSE IF float_parses(clean_value) THEN "float"
             ELSE IF date_patterns_match(clean_value) THEN "date"
             ELSE IF lower(clean_value) \in bool_values THEN "boolean"
             ELSE "string"

----------------------------------------------------------------------------
(* float(value) as createDataCatalog uses it for min_value / max_value.  A
   finite value is kept as the exact decimal the text denotes,
   (-1)^neg * N * 10^(-k), in lowest terms of ten; short decimals compare as
   their doubles do. *)

RECURSIVE DropUnderscores(_)
DropUnderscores(s) ==
    IF s = <<>> THEN <<>>
    ELSE IF Head(s) = "_" THEN DropUnderscores(Tail(s))
    ELSE <<Head(s)>> \o DropUnderscores(Tail(s))

RECURSIVE Canonical(_, _, _)
Canonical(neg, N, k) ==
    IF N = 0 THEN [kind |-> "num", neg |-> neg, N |-> 0, k |-> 0]
    ELSE IF N % 10 = 0 THEN Canonical(neg, N \div 10, k - 1)
    ELSE [kind |-> "num", neg |-> neg, N |-> N, k |-> k]

\* float(s) for a text that float() accepts
FloatValue(s) ==
    LET neg == s # <<>> /\ Head(s) = "-"
        u == lower(DropUnderscores(Signless(s)))
    IN  IF u \in {<<"i", "n", "f">>, <<"i", "n", "f", "i", "n", "i", "t", "y">>}
        THEN [kind |-> "inf", neg |-> neg, N |-> 0, k |-> 0]
        ELSE IF u = <<"n", "a", "n">>
        THEN [kind |-> "nan", neg |-> FALSE, N |-> 0, k |-> 0]
        ELSE LET hasExp == Contains(u, "e")
                 m == IF hasExp THEN SubSeq(u, 1, ExponentPos(u) - 1) ELSE u
                 x == IF hasExp THEN SubSeq(u, ExponentPos(u) + 1, Len(u)) ELSE <<>>
                 xv == IF x = <<>> THEN 0
                       ELSE IF Head(x) = "-" THEN 0 - DigitsToNat(Tail(x))
                       ELSE DigitsToNat(Signless(x))
                 ip == IF Contains(m, ".") THEN SubSeq(m, 1, DotPos(m) - 1) ELSE m
                 fp == IF Contains(m, ".") THEN SubSeq(m, DotPos(m) + 1, Len(m)) ELSE <<>>
             IN  Canonical(neg, DigitsToNat(ip \o fp), Len(fp) - xv)

\* x < y for Python floats (every comparison with nan is False)
FloatLess(x, y) ==
    IF x.kind = "nan" \/ y.kind = "nan" THEN FALSE
    ELSE IF x.kind = "inf" THEN x.neg /\ ~(y.kind = "inf" /\ y.neg)
    ELSE IF y.kind = "inf" THEN ~y.neg
    ELSE LET K == Max(x.k, y.k)
             ax == (IF x.neg THEN -1 ELSE 1) * x.N * Pow(10, K - x.k)
             ay == (IF y.neg THEN -1 ELSE 1) * y.N * Pow(10, K - y.k)
         IN  ax < ay

----------------------------------------------------------------------------
(* createDataCatalog *)

\* ColumnInfo(name=header, data_type='unknown')
ColumnInfo(name) ==
    [name |-> name, data_type |-> "unknown", sample_values |-> <<>>,
     min_value |-> NoValue, max_value |-> NoValue, unique_values |-> {},
     null_count |-> 0, row_count |-> 0]

\* DataCatalog(file_path=..., file_size_bytes=..., delimiter=...)
DataCatalog(file_path, file_size, delimiter) ==
    [file_path |-> file_path, row_count |-> 0, column_count |-> 0,
     headers |-> <<>>, columns |-> <<>>, file_size_bytes |-> file_size,
     has_header |-> TRUE, delimiter |-> delimiter, encoding |-> "utf-8"]

potential_delimiters == <<",", ";", "\t", "|">>

\* a detection in which the last potential delimiter found wins
DetectDelimiter_LastWins(first) ==
    IF \E i \in 1..4 : Contains(first, potential_delimiters[i])
    THEN potential_delimiters[CHOOSE i \in 1..4 :
            /\ Contains(first, potential_delimiters[i])
            /\ \A j \in (i + 1)..4 : ~Contains(first, potential_delimiters[j])]
    ELSE ","

\* the first potential delimiter found in the first line, else ','
DetectDelimiter(first) ==
    IF \E i \in 1..4 : Contains(first, potential_delimiters[i])
    THEN potential_delimiters[CHOOSE i \in 1..4 :
            /\ Contains(first, potential_delimiters[i])
            /\ \A j \in 1..(i - 1) : ~Contains(first, potential_delimiters[j])]
    ELSE ","

Range(xs) == {xs[i] : i \in 1..Len(xs)}

\* number of occurrences of x in xs
Count(xs, x) == Cardinality({i \in 1..Len(xs) : xs[i] = x})

\* Counter(xs).most_common(1)[0][0]: the most frequent element, the first
\* encountered among equally frequent ones
most_common(xs) ==
    xs[CHOOSE i \in 1..Len(xs) :
          /\ \A j \in 1..Len(xs) : Count(xs, xs[j]) <= Count(xs, xs[i])
          /\ \A j \in 1..(i - 1) : Count(xs, xs[j]) < Count(xs, xs[i])]

\* sample_values kept per column, and the prefix of non-empty values types
\* are inferred from
SampleCap == 100
TypeSample == 20

Prefix(xs, n) == SubSeq(xs, 1, Min(n, Len(xs)))

\* how many entries top_values returns at most
TopCount == 5

\* the positions of xs that hold a value for the first time
first_positions(xs) == {i \in 1..Len(xs) : \A j \in 1..(i - 1) : xs[j] # xs[i]}

counter_from(xs, firsts) ==
    List([r \in 1..Cardinality(firsts) |->
             <<xs[CHOOSE i \in firsts : Cardinality({k \in firsts : k < i}) = r - 1],
               Count(xs, xs[CHOOSE i \in firsts :
                               Cardinality({k \in firsts : k < i}) = r - 1])>>])

\* Counter(xs): the pairs <<element, count>> in the order the elements are
\* first encountered (the insertion order of the dict)
Counter(xs) == counter_from(xs, first_positions(xs))

\* how many entries of the counter come before entry i when sorted by
\* descending count, entries of equal count staying in their order
rank(counter, i) ==
    Cardinality({k \in 1..Len(counter) :
                    \/ counter[k][2] > counter[i][2]
                    \/ counter[k][2] = counter[i][2] /\ k < i})

\* counter.most_common(n)
most_common_n(counter, n) ==
    List([r \in 1..Min(n, Len(counter)) |->
             counter[CHOOSE i \in 1..Len(counter) : rank(counter, i) = r - 1]])

\* the ColumnInfo after "if not hasattr(self, '_value_counts'):
\* self._value_counts = Counter(self.sample_values)"
with_value_counts(ci) ==
    IF "value_counts" \in DOMAIN ci THEN ci
    ELSE ci @@ [value_counts |-> Counter(ci.sample_values)]

\* what a read of the property ColumnInfo.top_values returns
top_values(ci) == most_common_n(with_value_counts(ci).value_counts, TopCount)

\* the running min / max of lines 357-365 over the non-empty values vs of
\* one column, starting from the ColumnInfo ci
RECURSIVE TrackMinMax(_, _)
TrackMinMax(ci, vs) ==
    IF vs = <<>> THEN ci
    ELSE IF ~float_parses(Head(vs)) THEN TrackMinMax(ci, Tail(vs))
    ELSE LET num_val == FloatValue(Head(vs))
             lo == IF ci.min_value = NoValue \/ FloatLess(num_val, ci.min_value)
                   THEN num_val ELSE ci.min_value
             hi == IF ci.max_value = NoValue \/ FloatLess(ci.max_value, num_val)
                   THEN num_val ELSE ci.max_value
         IN  TrackMinMax([ci EXCEPT !.min_value = lo, !.max_value = hi], Tail(vs))

NonEmpty(v) == v # <<>>

\* a column in which a row too short to reach it counts as an empty value
column_values_PadsMissing(col_idx, data_rows) ==
    List([i \in 1..Len(data_rows) |->
             IF col_idx < Len(data_rows[i]) THEN <<strip(data_rows[i][col_idx + 1])>>
             ELSE << <<>> >>])

\* the stripped values of column col_idx (0-based) in the rows that reach it
column_values(col_idx, data_rows) ==
    List([i \in 1..Len(data_rows) |->
             IF col_idx < Len(data_rows[i]) THEN <<strip(data_rows[i][col_idx + 1])>>
             ELSE <<>>])

\* the concatenation of the lists in xss (by halves, so that long lists do
\* not nest deeply)
RECURSIVE flatten(_)
flatten(xss) ==
    IF xss = <<>> THEN <<>>
    ELSE IF Len(xss) = 1 THEN xss[1]
    ELSE flatten(SubSeq(xss, 1, Len(xss) \div 2))
             \o flatten(SubSeq(xss, Len(xss) \div 2 + 1, Len(xss)))

\* [inferDataType(v) for v in non_empty_values[:20]]
inferred_types(non_empty_values) ==
    List([i \in 1..Min(TypeSample, Len(non_empty_values)) |->
             inferDataType(non_empty_values[i])])

\* the updates of one column from its values (lines 346-375)
update_column(ci, n_rows, values, non_empty_values) ==
    [(IF ci.data_type \in {"integer", "float"}
      THEN TrackMinMax(
               [ci EXCEPT !.row_count = n_rows,
                          !.null_count = @ + (Len(values) - Len(non_empty_values)),
                          !.unique_values = @ \cup Range(non_empty_values)],
               non_empty_values)
      ELSE [ci EXCEPT !.row_count = n_rows,
                      !.null_count = @ + (Len(values) - Len(non_empty_values)),
                      !.unique_values = @ \cup Range(non_empty_values)])
     EXCEPT !.sample_values = Prefix(values, SampleCap),
            !.data_type = IF non_empty_values # <<>>
                          THEN most_common(inferred_types(non_empty_values))
                          ELSE @]

profile_column(ci, n_rows, values) ==
    update_column(ci, n_rows, values, SelectSeq(values, NonEmpty))

\* a column loop that counts as rows of a column only the rows long enough
\* to have it
AnalyzeColumn_CountsValues(ci, col_idx, data_rows) ==
    profile_column(ci, Len(flatten(column_values(col_idx, data_rows))),
                   flatten(column_values(col_idx, data_rows)))

\* one pass of the loop "for col_idx, header in enumerate(headers)" on the
\* ColumnInfo ci stored under the header (col_idx is 0-based)
AnalyzeColumn(ci, col_idx, data_rows) ==
    profile_column(ci, Len(data_rows), flatten(column_values(col_idx, data_rows)))

\* the loop over the columns; columns is the mapping header -> ColumnInfo
RECURSIVE AnalyzeColumns(_, _, _, _)
AnalyzeColumns(columns, headers, data_rows, col_idx) ==
    IF col_idx >= Len(headers) THEN columns
    ELSE LET header == headers[col_idx + 1]
         IN  AnalyzeColumns(
                 [columns EXCEPT ![header] = AnalyzeColumn(@, col_idx, data_rows)],
                 headers, data_rows, col_idx + 1)

\* f"Column{i+1}"
GenericHeader(i) == <<"C", "o", "l", "u", "m", "n">> \o NatToStr(i)

\* a single row kept as a header row: its columns carry no data
SingleRowColumn_HeaderOnly(name, field) == ColumnInfo(name)

\* the single-row branch (lines 299-335): the only row is profiled as data
SingleRowColumn(name, field) ==
    LET v == strip(field)
        base == [ColumnInfo(name) EXCEPT !.sample_values = <<v>>, !.row_count = 1]
    IN  IF v # <<>>
        THEN LET typed == [base EXCEPT !.unique_values = {v},
                                       !.data_type = inferDataType(v)]
             IN  IF typed.data_type \in {"integer", "float"}
                 THEN [typed EXCEPT !.min_value = FloatValue(v),
                                    !.max_value = FloatValue(v)]
                 ELSE typed
        ELSE [base EXCEPT !.null_count = 1]

\* os.path.getsize(file_path) of the text held in lines, each line ended by
\* a newline; 0 when the path names no file (OSError)
RECURSIVE ByteSize(_)
ByteSize(lines) ==
    IF lines = <<>> THEN 0
    ELSE IF Len(lines) = 1 THEN Len(lines[1]) + 1
    ELSE ByteSize(SubSeq(lines, 1, Len(lines) \div 2))
             + ByteSize(SubSeq(lines, Len(lines) \div 2 + 1, Len(lines)))

\* the single-row branch applied to every field of the row
single_row_columns(generic_headers, fields) ==
    [h \in Range(generic_headers) |->
        SingleRowColumn(h, fields[CHOOSE j \in 1..Len(fields) : generic_headers[j] = h])]

generic_headers_of(fields) == List([i \in 1..Len(fields) |-> GenericHeader(i)])

\* the catalog once the first row (headers, stripped) and the rows after it
\* are known (lines 285-375)
fill_catalog(catalog, headers, data_rows) ==
    IF data_rows = <<>>
    THEN [catalog EXCEPT
            !.headers = generic_headers_of(headers),
            !.column_count = Len(headers),
            !.row_count = 1,
            !.columns = single_row_columns(generic_headers_of(headers), headers)]
    ELSE [catalog EXCEPT
            !.headers = headers,
            !.column_count = Len(headers),
            !.row_count = Len(data_rows),
            !.columns = AnalyzeColumns([h \in Range(headers) |-> ColumnInfo(h)],
                                       headers, data_rows, 0)]

strip_all(fields) == List([i \in 1..Len(fields) |-> strip(fields[i])])

catalog_of_rows(catalog, rows) ==
    IF rows = <<>> THEN catalog
    ELSE fill_catalog(catalog, strip_all(rows[1]), Tail(rows))

not_blank(ln) == strip(ln) # <<>>

\* rows: line.split(delimiter) of the lines that are not blank
split_rows(kept, delimiter) ==
    List([i \in 1..Len(kept) |-> split(kept[i], delimiter)])

catalog_with(file_path, lines, file_size, delimiter) ==
    catalog_of_rows(DataCatalog(file_path, file_size, delimiter),
                    split_rows(SelectSeq(lines, not_blank), delimiter))

createDataCatalog(file_path, lines, file_size) ==
    IF lines = NoContent \/ lines = <<>> THEN DataCatalog(file_path, 0, ",")
    ELSE catalog_with(file_path, lines, file_size, DetectDelimiter(lines[1]))

----------------------------------------------------------------------------
(* difflib.unified_diff(a, b, fromfile, tofile, lineterm='') as called by
   compareFiles and compareDirectories.  Indices are 0-based and ranges
   half-open, as in difflib; a[i] of Python is a[i + 1] here.  No junk
   heuristic applies below 200 lines. *)

\* lines of context around a change (difflib's default n)
ContextLines == 3

\* length of the common run a[i:], b[j:] inside a[..ahi), b[..bhi)
RECURSIVE RunLength(_, _, _, _, _, _)
RunLength(a, b, i, j, ahi, bhi) ==
    IF i < ahi /\ j < bhi /\ a[i + 1] = b[j + 1]
    THEN 1 + RunLength(a, b, i + 1, j + 1, ahi, bhi)
    ELSE 0

\* SequenceMatcher.find_longest_match: the longest matching block, of those
\* the one starting earliest in a, of those the one starting earliest in b
find_longest_match(a, b, alo, ahi, blo, bhi) ==
    LET starts == (alo..(ahi - 1)) \X (blo..(bhi - 1))
        best == IF starts = {} THEN 0
                ELSE CHOOSE k \in 0..(ahi - alo) :
                        /\ \E st \in starts : RunLength(a, b, st[1], st[2], ahi, bhi) = k
                        /\ \A st \in starts : RunLength(a, b, st[1], st[2], ahi, bhi) <= k
    IN  IF best = 0 THEN [i |-> alo, j |-> blo, size |-> 0]
        ELSE LET hits == {st \in starts : RunLength(a, b, st[1], st[2], ahi, bhi) = best}
                 bi == CHOOSE x \in {st[1] : st \in hits} :
                          \A st \in hits : x <= st[1]
                 bj == CHOOSE y \in {st[2] : st \in {h \in hits : h[1] = bi}} :
                          \A st \in {h \in hits : h[1] = bi} : y <= st[2]
             IN  [i |-> bi, j |-> bj, size |-> best]

\* SequenceMatcher.get_matching_blocks, without the closing sentinel
RECURSIVE matching_blocks(_, _, _, _, _, _)
matching_blocks(a, b, alo, ahi, blo, bhi) ==
    LET m == find_longest_match(a, b, alo, ahi, blo, bhi)
    IN  IF m.size = 0 THEN <<>>
        ELSE (IF alo < m.i /\ blo < m.j
              THEN matching_blocks(a, b, alo, m.i, blo, m.j) ELSE <<>>)
             \o <<m>>
             \o (IF m.i + m.size < ahi /\ m.j + m.size < bhi
                 THEN matching_blocks(a, b, m.i + m.size, ahi, m.j + m.size, bhi)
                 ELSE <<>>)

get_matching_blocks(a, b) ==
    matching_blocks(a, b, 0, Len(a), 0, Len(b))
    \o <<[i |-> Len(a), j |-> Len(b), size |-> 0]>>

Opcode(tag, i1, i2, j1, j2) ==
    [tag |-> tag, i1 |-> i1, i2 |-> i2, j1 |-> j1, j2 |-> j2]

\* SequenceMatcher.get_opcodes
RECURSIVE opcodes_from(_, _, _)
opcodes_from(blocks, i, j) ==
    IF blocks = <<>> THEN <<>>
    ELSE LET blk == Head(blocks)
             tag == IF i < blk.i /\ j < blk.j THEN "replace"
                    ELSE IF i < blk.i THEN "delete"
                    ELSE IF j < blk.j THEN "insert"
                    ELSE ""
         IN  (IF tag # "" THEN <<Opcode(tag, i, blk.i, j, blk.j)>> ELSE <<>>)
             \o (IF blk.size > 0
                 THEN <<Opcode("equal", blk.i, blk.i + blk.size, blk.j, blk.j + blk.size)>>
                 ELSE <<>>)
             \o opcodes_from(Tail(blocks), blk.i + blk.size, blk.j + blk.size)

get_opcodes(a, b) == opcodes_from(get_matching_blocks(a, b), 0, 0)

\* the loop of SequenceMatcher.get_grouped_opcodes: returns the list of groups
RECURSIVE group_loop(_, _, _)
group_loop(codes, group, n) ==
    IF codes = <<>>
    THEN IF group # <<>> /\ ~(Len(group) = 1 /\ group[1].tag = "equal")
         THEN <<group>> ELSE <<>>
    ELSE LET c == Head(codes)
         IN  IF c.tag = "equal" /\ c.i2 - c.i1 > n + n
             THEN <<Append(group, Opcode(c.tag, c.i1, Min(c.i2, c.i1 + n),
                                         c.j1, Min(c.j2, c.j1 + n)))>>
                  \o group_loop(Tail(codes),
                                <<Opcode(c.tag, Max(c.i1, c.i2 - n), c.i2,
                                         Max(c.j1, c.j2 - n), c.j2)>>, n)
             ELSE group_loop(Tail(codes), Append(group, c), n)

\* get_grouped_opcodes: an equal opcode that opens the list keeps its last
\* n lines, one that closes the list keeps its first n
trim_head(c, n) ==
    IF c.tag = "equal"
    THEN Opcode(c.tag, Max(c.i1, c.i2 - n), c.i2, Max(c.j1, c.j2 - n), c.j2)
    ELSE c

trim_tail(c, n) ==
    IF c.tag = "equal"
    THEN Opcode(c.tag, c.i1, Min(c.i2, c.i1 + n), c.j1, Min(c.j2, c.j1 + n))
    ELSE c

trim_ends(codes, n) ==
    [[codes EXCEPT ![1] = trim_head(@, n)] EXCEPT ![Len(codes)] = trim_tail(@, n)]

or_one_equal(codes) ==
    IF codes = <<>> THEN <<Opcode("equal", 0, 1, 0, 1)>> ELSE codes

get_grouped_opcodes(a, b, n) ==
    group_loop(trim_ends(or_one_equal(get_opcodes(a, b)), n), <<>>, n)

\* difflib._format_range_unified
format_range_unified(start, stop) ==
    LET length == stop - start
    IN  IF length = 1 THEN NatToStr(start + 1)
        ELSE NatToStr(IF length = 0 THEN start ELSE start + 1)
             \o <<",">> \o NatToStr(length)

Prefixed(c, lines, lo, hi) == List([x \in 1..(hi - lo) |-> <<c>> \o lines[lo + x]])

RECURSIVE opcode_lines(_, _, _)
opcode_lines(a, b, group) ==
    IF group = <<>> THEN <<>>
    ELSE LET c == Head(group)
         IN  (IF c.tag = "equal" THEN Prefixed(" ", a, c.i1, c.i2)
              ELSE (IF c.tag \in {"replace", "delete"}
                    THEN Prefixed("-", a, c.i1, c.i2) ELSE <<>>)
                   \o (IF c.tag \in {"replace", "insert"}
                       THEN Prefixed("+", b, c.j1, c.j2) ELSE <<>>))
             \o opcode_lines(a, b, Tail(group))

RECURSIVE hunks(_, _, _)
hunks(a, b, groups) ==
    IF groups = <<>> THEN <<>>
    ELSE LET g == Head(groups)
         IN  << <<"@", "@", " ", "-">>
                \o format_range_unified(g[1].i1, g[Len(g)].i2)
                \o <<" ", "+">>
                \o format_range_unified(g[1].j1, g[Len(g)].j2)
                \o <<" ", "@", "@">> >>
             \o opcode_lines(a, b, g)
             \o hunks(a, b, Tail(groups))

unified_diff(a, b, fromfile, tofile) ==
    LET groups == get_grouped_opcodes(a, b, ContextLines)
    IN  IF groups = <<>> THEN <<>>
        ELSE << <<"-", "-", "-", " ">> \o fromfile,
                <<"+", "+", "+", " ">> \o tofile >>
             \o hunks(a, b, groups)

----------------------------------------------------------------------------
(* file_utils: read_file, get_file_paths; os.path helpers *)

\* a read_file that hands back an empty file where the real one gives up
read_file_EmptyOnError(path) ==
    IF path \in DOMAIN fs /\ fs[path] # Unreadable THEN fs[path] ELSE <<>>

\* read_file(file_path): the lines of the file, None when open() or
\* decoding raises
read_file(path) ==
    IF path \in DOMAIN fs /\ fs[path] # Unreadable THEN fs[path] ELSE NoContent

\* os.path.getsize(file_path), 0 on OSError (text files, lines ended by a
\* newline; the size of a file that cannot be read plays no role)
getsize(path) ==
    IF path \in DOMAIN fs /\ fs[path] # Unreadable THEN ByteSize(fs[path]) ELSE 0

\* str.endswith
endswith(str, suffix) ==
    /\ Len(str) >= Len(suffix)
    /\ SubSeq(str, Len(str) - Len(suffix) + 1, Len(str)) = suffix

startswith(str, prefix) ==
    /\ Len(str) >= Len(prefix)
    /\ SubSeq(str, 1, Len(prefix)) = prefix

\* os.path.basename
basename(path) ==
    LET parts == split(path, "/") IN parts[Len(parts)]

\* os.path.dirname
dirname(path) == SubSeq(path, 1, Len(path) - Len(basename(path)) - 1)

\* os.path.relpath(path, base_path) for a path below base_path
get_relative_path(path, base_path) ==
    SubSeq(path, Len(base_path) + 2, Len(path))

\* fnmatch.fnmatch(filename, pattern) for patterns of literals, * and ?
RECURSIVE fnmatch(_, _)
fnmatch(filename, pattern) ==
    IF pattern = <<>> THEN filename = <<>>
    ELSE IF Head(pattern) = "*"
         THEN \/ fnmatch(filename, Tail(pattern))
              \/ filename # <<>> /\ fnmatch(Tail(filename), pattern)
    ELSE /\ filename # <<>>
         /\ Head(pattern) = "?" \/ Head(pattern) = Head(filename)
         /\ fnmatch(Tail(filename), Tail(pattern))

should_ignore(path, patterns) ==
    \E i \in 1..Len(patterns) : fnmatch(basename(path), patterns[i])

\* the files os.walk (recursive) or os.listdir (not recursive) visits
visited_files(directory_path, rec) ==
    {path \in DOMAIN fs :
        /\ startswith(path, directory_path \o <<"/">>)
        /\ rec \/ dirname(path) = directory_path}

\* get_file_paths raises TypeError when it tests a file against None
get_file_paths_raises(directory_path, rec, patterns) ==
    patterns = NoPatterns /\ visited_files(directory_path, rec) # {}

\* the set of paths get_file_paths returns
get_file_paths(directory_path, rec, patterns) ==
    {path \in visited_files(directory_path, rec) : ~should_ignore(path, patterns)}

\* the orders get_file_paths can return them in: os.walk lists the files of
\* a directory before those of its subdirectories, the rest is up to the OS
Listings(paths) ==
    {l \in [1..Cardinality(paths) -> paths] :
        /\ \A i, j \in 1..Cardinality(paths) : i # j => l[i] # l[j]
        /\ \A i, j \in 1..Cardinality(paths) :
               (dirname(l[i]) # dirname(l[j])
                /\ startswith(dirname(l[j]), dirname(l[i]) \o <<"/">>)) => i < j}

----------------------------------------------------------------------------
(* compareFiles, compareDirectories *)

\* DiffResult(source_path, target_path, is_identical, diff_lines, source_only,
\*            target_only, source_catalog, target_catalog, source_content,
\*            target_content)
DiffResult(sp, tp, same, diff, s_only, t_only, s_cat, t_cat, sc, tc) ==
    [source_path |-> sp, target_path |-> tp, is_identical |-> same,
     diff_lines |-> diff, source_only |-> s_only, target_only |-> t_only,
     source_catalog |-> s_cat, target_catalog |-> t_cat,
     source_content |-> sc, target_content |-> tc]

\* "Error: Unable to read one or both files"
UnableToRead ==
    <<"E", "r", "r", "o", "r", ":", " ", "U", "n", "a", "b", "l", "e", " ",
      "t", "o", " ", "r", "e", "a", "d", " ", "o", "n", "e", " ", "o", "r",
      " ", "b", "o", "t", "h", " ", "f", "i", "l", "e", "s">>

\* "Error reading one of the files."
ErrorReading ==
    <<"E", "r", "r", "o", "r", " ", "r", "e", "a", "d", "i", "n", "g", " ",
      "o", "n", "e", " ", "o", "f", " ", "t", "h", "e", " ", "f", "i", "l",
      "e", "s", ".">>

\* "File exists only in source: "
OnlyInSource ==
    <<"F", "i", "l", "e", " ", "e", "x", "i", "s", "t", "s", " ", "o", "n",
      "l", "y", " ", "i", "n", " ", "s", "o", "u", "r", "c", "e", ":", " ">>

\* "File exists only in target: "
OnlyInTarget ==
    <<"F", "i", "l", "e", " ", "e", "x", "i", "s", "t", "s", " ", "o", "n",
      "l", "y", " ", "i", "n", " ", "t", "a", "r", "g", "e", "t", ":", " ">>

DotCsv == <<".", "c", "s", "v">>

\* an is_csv that compares the extension as written
is_csv_CaseSensitive(path, lines) ==
    \/ endswith(path, DotCsv)
    \/ lines # <<>> /\ Contains(lines[1], ",")

\* path.lower().endswith('.csv') or (',' in content[0] if content else False)
is_csv(path, lines) ==
    \/ endswith(lower(path), DotCsv)
    \/ lines # <<>> /\ Contains(lines[1], ",")

\* the result of diffing two readable contents: identical when the diff of
\* the normalized lines is empty
diffed(source_label, target_label, diff, source_catalog, target_catalog, sc, tc) ==
    DiffResult(source_label, target_label, diff = <<>>, diff, FALSE, FALSE,
               source_catalog, target_catalog, sc, tc)

\* createDataCatalog(path, content) when wanted, else None
catalog_if(wanted, path, lines) ==
    IF wanted THEN createDataCatalog(path, lines, getsize(path)) ELSE NoCatalog

\* a compareFiles that diffs the contents as given
compare_contents_RawDiff(sp, tp, sc, tc, p, gen) ==
    IF sc = NoContent \/ tc = NoContent
    THEN DiffResult(sp, tp, FALSE, <<UnableToRead>>, FALSE, FALSE,
                    NoCatalog, NoCatalog, sc, tc)
    ELSE diffed(sp, tp, unified_diff(sc, tc, sp, tp),
                catalog_if(gen /\ is_csv(sp, sc), sp, sc),
                catalog_if(gen /\ is_csv(tp, tc), tp, tc),
                sc, tc)

\* a compareFiles that normalizes its inputs in place: the record and the
\* catalogs get the normalized lines
compare_contents_KeepsNormalized(sp, tp, sc, tc, p, gen) ==
    IF sc = NoContent \/ tc = NoContent
    THEN DiffResult(sp, tp, FALSE, <<UnableToRead>>, FALSE, FALSE,
                    NoCatalog, NoCatalog, sc, tc)
    ELSE diffed(sp, tp,
                unified_diff(preprocessContent(sc, p), preprocessContent(tc, p),
                             sp, tp),
                catalog_if(gen /\ is_csv(sp, sc), sp, preprocessContent(sc, p)),
                catalog_if(gen /\ is_csv(tp, tc), tp, preprocessContent(tc, p)),
                preprocessContent(sc, p), preprocessContent(tc, p))

\* compareFiles once both contents are in hand (lines 407-455)
compare_contents(sp, tp, sc, tc, p, gen) ==
    IF sc = NoContent \/ tc = NoContent
    THEN DiffResult(sp, tp, FALSE, <<UnableToRead>>, FALSE, FALSE,
                    NoCatalog, NoCatalog, sc, tc)
    ELSE diffed(sp, tp,
                unified_diff(preprocessContent(sc, p), preprocessContent(tc, p),
                             sp, tp),
                catalog_if(gen /\ is_csv(sp, sc), sp, sc),
                catalog_if(gen /\ is_csv(tp, tc), tp, tc),
                sc, tc)

\* content supplied by the caller, else read from the path
content_or_read(arg, path) == IF arg = NoContent THEN read_file(path) ELSE arg

compareFiles(sp, tp, sc_arg, tc_arg, p, gen) ==
    compare_contents(sp, tp, content_or_read(sc_arg, sp), content_or_read(tc_arg, tp),
                     p, gen)

\* source_names / target_names: filename -> path, the last path listed
\* under a filename wins
names_of(listing) ==
    [filename \in {basename(listing[i]) : i \in 1..Len(listing)} |->
        listing[CHOOSE i \in 1..Len(listing) :
                   /\ basename(listing[i]) = filename
                   /\ \A j \in (i + 1)..Len(listing) : basename(listing[j]) # filename]]

\* a record content that keeps None
OrEmpty_KeepNone(lines) == lines

\* content if content else []
OrEmpty(lines) == IF lines = NoContent THEN <<>> ELSE lines

\* a pair whose contents are diffed as read, without normalizing them
compare_common_RawDiff(sp, tp, sc, tc, source_rel_path, target_rel_path, p, gen) ==
    IF sc = NoContent \/ tc = NoContent
    THEN DiffResult(source_rel_path, target_rel_path, FALSE,
                    <<ErrorReading>>, FALSE, FALSE, NoCatalog, NoCatalog,
                    OrEmpty(sc), OrEmpty(tc))
    ELSE diffed(source_rel_path, target_rel_path,
                unified_diff(sc, tc, source_rel_path, target_rel_path),
                catalog_if(gen /\ endswith(sp, DotCsv) /\ endswith(tp, DotCsv), sp, sc),
                catalog_if(gen /\ endswith(sp, DotCsv) /\ endswith(tp, DotCsv), tp, tc),
                sc, tc)

\* a pair whose catalogs are decided per side as compareFiles decides them
compare_common_Sniffing(sp, tp, sc, tc, source_rel_path, target_rel_path, p, gen) ==
    IF sc = NoContent \/ tc = NoContent
    THEN DiffResult(source_rel_path, target_rel_path, FALSE,
                    <<ErrorReading>>, FALSE, FALSE, NoCatalog, NoCatalog,
                    OrEmpty(sc), OrEmpty(tc))
    ELSE diffed(source_rel_path, target_rel_path,
                unified_diff(preprocessContent(sc, p), preprocessContent(tc, p),
                             source_rel_path, target_rel_path),
                catalog_if(gen /\ is_csv(sp, sc), sp, sc),
                catalog_if(gen /\ is_csv(tp, tc), tp, tc),
                sc, tc)

\* a file found in both trees (lines 509-560)
compare_common(sp, tp, sc, tc, source_rel_path, target_rel_path, p, gen) ==
    IF sc = NoContent \/ tc = NoContent
    THEN DiffResult(source_rel_path, target_rel_path, FALSE,
                    <<ErrorReading>>, FALSE, FALSE, NoCatalog, NoCatalog,
                    OrEmpty(sc), OrEmpty(tc))
    ELSE diffed(source_rel_path, target_rel_path,
                unified_diff(preprocessContent(sc, p), preprocessContent(tc, p),
                             source_rel_path, target_rel_path),
                catalog_if(gen /\ endswith(sp, DotCsv) /\ endswith(tp, DotCsv), sp, sc),
                catalog_if(gen /\ endswith(sp, DotCsv) /\ endswith(tp, DotCsv), tp, tc),
                sc, tc)

\* a source-only record without its diagnostic line
source_only_entry_NoDiagnostic(sp, sc, source_rel_path, gen) ==
    DiffResult(source_rel_path, <<>>, FALSE, <<>>, TRUE, FALSE,
               catalog_if(gen /\ endswith(sp, DotCsv) /\ OrEmpty(sc) # <<>>, sp, sc),
               NoCatalog, OrEmpty(sc), NoContent)

\* a file found in the source tree only (lines 561-579)
source_only_entry(sp, sc, source_rel_path, gen) ==
    DiffResult(source_rel_path, <<>>, FALSE,
               <<OnlyInSource \o source_rel_path>>, TRUE, FALSE,
               catalog_if(gen /\ endswith(sp, DotCsv) /\ OrEmpty(sc) # <<>>, sp, sc),
               NoCatalog, OrEmpty(sc), NoContent)

\* a file found in the target tree only (lines 580-598)
target_only_entry(tp, tc, target_rel_path, gen) ==
    DiffResult(<<>>, target_rel_path, FALSE,
               <<OnlyInTarget \o target_rel_path>>, FALSE, TRUE,
               NoCatalog,
               catalog_if(gen /\ endswith(tp, DotCsv) /\ OrEmpty(tc) # <<>>, tp, tc),
               NoContent, OrEmpty(tc))

\* a loop body that never pairs: a name of the source tree is source-only
compare_entry_NoPairing(filename, source_names, target_names, sd, td, p, gen) ==
    IF filename \in DOMAIN source_names
    THEN source_only_entry(source_names[filename], read_file(source_names[filename]),
                           get_relative_path(source_names[filename], sd), gen)
    ELSE target_only_entry(target_names[filename], read_file(target_names[filename]),
                           get_relative_path(target_names[filename], td), gen)

\* one pass of the loop "for filename in all_filenames"
compare_entry(filename, source_names, target_names, sd, td, p, gen) ==
    IF filename \in DOMAIN source_names /\ filename \in DOMAIN target_names
    THEN compare_common(source_names[filename], target_names[filename],
                        read_file(source_names[filename]),
                        read_file(target_names[filename]),
                        get_relative_path(source_names[filename], sd),
                        get_relative_path(target_names[filename], td), p, gen)
    ELSE IF filename \in DOMAIN source_names
    THEN source_only_entry(source_names[filename], read_file(source_names[filename]),
                           get_relative_path(source_names[filename], sd), gen)
    ELSE target_only_entry(target_names[filename], read_file(target_names[filename]),
                           get_relative_path(target_names[filename], td), gen)

\* the orders a set can be iterated in
Orders(S) ==
    {l \in [1..Cardinality(S) -> S] :
        \A i, j \in 1..Cardinality(S) : i # j => l[i] # l[j]}

\* the list compareDirectories returns for given listings and a given
\* iteration order of all_filenames
compareDirectories(source_files, target_files, order, sd, td, p, gen) ==
    List([i \in 1..Len(order) |->
             compare_entry(order[i], names_of(source_files), names_of(target_files),
                           sd, td, p, gen)])

----------------------------------------------------------------------------
(* Input spaces *)

Precisions == (-1)..MaxPrecision

\* the digits generated tokens are written with: 5 gives decimal ties, 2
\* and 1 give ties whose double lies below, above or exactly on the decimal
TokenDigits == {"0", "1", "2", "5"}

DigitStrings(n) == UNION {[1..m -> TokenDigits] : m \in 1..n}

\* every token  -?d+.d+  within the digit bounds
DecimalTokens ==
    {s \o ip \o <<".">> \o fp :
        s \in {<<>>, <<"-">>},
        ip \in DigitStrings(MaxIntDigits),
        fp \in DigitStrings(MaxFracDigits)}

\* tokens that do not match number_pattern: "42", "abc", "1e10", "", "-7",
\* "1.", ".5", "1.2.3", "1,5" has no place here (a comma ends a token)
PlainTokens ==
    { <<"4", "2">>, <<"a", "b", "c">>, <<"1", "e", "1", "0">>, <<>>,
      <<"-", "7">>, <<"1", ".">>, <<".", "5">>, <<"1", ".", "2", ".", "3">>,
      <<"+", "1", ".", "5">>, <<"1", ".", "5", "e", "2">> }

\* tokens as they stand between the commas of a line, with their whitespace
LineTokens ==
    { <<>>, <<" ">>, <<"4", "2">>, <<" ", "a", "b", "c">>, <<"1", "e", "1", "0", " ">>,
      <<"1", ".", "5">>, <<" ", "-", "2", ".", "5", "0">>, <<"0", ".", "1", "2", "5", "\t">> }

\* the pieces the tokens handed to inferDataType are concatenated from
TokenPieces ==
    { <<"0">>, <<"1">>, <<"1", "5">>, <<"2", "0", "2", "4">>, <<"-">>, <<"+">>,
      <<".">>, <<"e">>, <<"_">>, <<" ">>, <<"/", "1", "/">>, <<"-", "1", "-">>,
      <<"n", "a", "n">>, <<"I", "n", "f">>, <<"t", "r", "u", "e">>,
      <<"Y", "e", "s">>, <<"n">>, <<"o">>, <<"f">>, <<"a", "b">> }

RECURSIVE Concat(_)
Concat(ps) == IF ps = <<>> THEN <<>> ELSE Head(ps) \o Concat(Tail(ps))

InferTokens ==
    {Concat(ps) : ps \in UNION {[1..m -> TokenPieces] : m \in 0..MaxPieces}}

LinesOf(tokens, n) ==
    {join(ts, ",") : ts \in UNION {[1..m -> tokens] : m \in 1..n}}

ContentsOf(lines, n) == UNION {[1..m -> lines] : m \in 0..n}

\* the tokens of the lines that make up generated contents
ContentTokens == { <<>>, <<"x">>, <<" ", "-", "0", ".", "2", "5">> }

----------------------------------------------------------------------------
(* Pure functions applied to drawn inputs *)

\* main is not involved
NoMain ==
    /\ dirs = {}
    /\ output_writable = TRUE
    /\ fault = "none"
    /\ report = FALSE
    /\ exit_code = -1

\* no comparison call is involved
NoCall ==
    /\ fs = <<>>
    /\ source_path = None /\ target_path = None
    /\ source_content = NoContent /\ target_content = NoContent
    /\ generate_catalog = FALSE /\ recursive = FALSE
    /\ ignore_patterns = NoPatterns
    /\ result = NoResult /\ results = <<>>
    /\ NoMain

\* normalizeNumber(value, decimal_precision)
InitNumber ==
    /\ value \in DecimalTokens \cup PlainTokens
    /\ decimal_precision \in Precisions
    /\ normalized = None /\ data_type = None
    /\ line = None /\ normalized_line = None
    /\ content = None /\ once = None /\ twice = None
    /\ data_catalog = NoCatalog
    /\ NoCall
    /\ pc = "call"

NormalizeNumber ==
    /\ pc = "call"
    /\ normalized' = normalizeNumber(value, decimal_precision)
    /\ pc' = "done"
    /\ UNCHANGED <<value, decimal_precision, data_type, line, normalized_line,
                   content, once, twice,
                   data_catalog, callVars>>

NextNumber == NormalizeNumber

SpecNumber == InitNumber /\ [][NextNumber]_vars

\* inferDataType(value)
InitInfer ==
    /\ value \in InferTokens
    /\ decimal_precision = 0
    /\ normalized = None /\ data_type = None
    /\ line = None /\ normalized_line = None
    /\ content = None /\ once = None /\ twice = None
    /\ data_catalog = NoCatalog
    /\ NoCall
    /\ pc = "call"

InferDataType ==
    /\ pc = "call"
    /\ data_type' = inferDataType(value)
    /\ pc' = "done"
    /\ UNCHANGED <<value, decimal_precision, normalized, line, normalized_line,
                   content, once, twice,
                   data_catalog, callVars>>

NextInfer == InferDataType

SpecInfer == InitInfer /\ [][NextInfer]_vars

\* normalizeCSVLine(line, decimal_precision)
InitLine ==
    /\ line \in LinesOf(LineTokens, MaxTokens)
    /\ decimal_precision \in Precisions
    /\ value = None /\ normalized = None /\ data_type = None
    /\ normalized_line = None
    /\ content = None /\ once = None /\ twice = None
    /\ data_catalog = NoCatalog
    /\ NoCall
    /\ pc = "call"

NormalizeCSVLine ==
    /\ pc = "call"
    /\ normalized_line' = normalizeCSVLine(line, decimal_precision)
    /\ pc' = "done"
    /\ UNCHANGED <<value, decimal_precision, normalized, data_type, line,
                   content, once, twice,
                   data_catalog, callVars>>

NextLine == NormalizeCSVLine

SpecLine == InitLine /\ [][NextLine]_vars

\* preprocessContent(content, p), then preprocessContent of its result
InitPre ==
    /\ content \in ContentsOf(LinesOf(ContentTokens, MaxTokens), MaxLines)
    /\ decimal_precision \in Precisions
    /\ value = None /\ normalized = None /\ data_type = None
    /\ line = None /\ normalized_line = None
    /\ once = None /\ twice = None
    /\ data_catalog = NoCatalog
    /\ NoCall
    /\ pc = "call"

PreprocessContent ==
    /\ pc = "call"
    /\ once' = preprocessContent(content, decimal_precision)
    /\ pc' = "again"
    /\ UNCHANGED <<value, decimal_precision, normalized, data_type, line,
                   normalized_line, content, twice,
                   data_catalog, callVars>>

PreprocessAgain ==
    /\ pc = "again"
    /\ twice' = preprocessContent(once, decimal_precision)
    /\ pc' = "done"
    /\ UNCHANGED <<value, decimal_precision, normalized, data_type, line,
                   normalized_line, content, once,
                   data_catalog, callVars>>

NextPre == PreprocessContent \/ PreprocessAgain

SpecPre == InitPre /\ [][NextPre]_vars

----------------------------------------------------------------------------
(* Comparison calls: compareFiles on a pair of files, compareDirectories on
   a pair of directory trees *)

\* the lines compared files are made of: a line with a comma, and one
\* decimal written with one and with two fractional digits
CompareLines ==
    { <<"1", ".", "5", ",", "a">>, <<"1", ".", "5">>, <<"1", ".", "5", "0">> }

CompareContents == ContentsOf(CompareLines, MaxLines)

\* no file at the path
Absent == << <<"Absent">> >>

\* one side of a compareFiles call: the content is supplied by the caller,
\* or it is not and the file holds it, or it is not and the file is unreadable
Sides ==
    {[arg |-> c, file |-> Absent] : c \in CompareContents}
    \cup {[arg |-> NoContent, file |-> c] : c \in CompareContents \cup {Unreadable}}

SourcePaths == { <<"a", ".", "c", "s", "v">>, <<"a">> }
TargetPaths == { <<"b", ".", "C", "S", "V">>, <<"b">> }

\* the two directory trees
SourceDir == <<"s">>
TargetDir == <<"t">>

TreePaths ==
    { <<"s", "/", "a", ".", "c", "s", "v">>,
      <<"s", "/", "d", "/", "a", ".", "c", "s", "v">>,
      <<"s", "/", "b">>,
      <<"t", "/", "a", ".", "c", "s", "v">>,
      <<"t", "/", "b">> }

TreeContents ==
    { << <<"1", ".", "5", ",", "a">> >>, << <<"1", ".", "5", "0", ",", "a">> >> }

\* what a file of the trees may hold
TreeChoices(path) ==
    IF endswith(path, DotCsv) THEN TreeContents \cup {Unreadable}
    ELSE { << <<"1", ".", "5", ",", "a">> >>, Unreadable }

\* ignore_patterns: None (the default), [], ["*.csv"]
IgnoreChoices == { NoPatterns, <<>>, << <<"*", ".", "c", "s", "v">> >> }

TextIdle ==
    /\ value = None /\ normalized = None /\ data_type = None
    /\ line = None /\ normalized_line = None
    /\ content = None /\ once = None /\ twice = None
    /\ data_catalog = NoCatalog

InitCompareFiles ==
    /\ pc = "compareFiles"
    /\ source_path \in SourcePaths
    /\ target_path \in TargetPaths
    /\ \E s \in Sides, t \in Sides :
          /\ source_content = s.arg
          /\ target_content = t.arg
          /\ fs = [path \in {source_path : x \in {s.file} \ {Absent}}
                              \cup {target_path : x \in {t.file} \ {Absent}} |->
                      IF path = source_path THEN s.file ELSE t.file]
    /\ decimal_precision \in Precisions
    /\ generate_catalog \in BOOLEAN
    /\ recursive = FALSE
    /\ ignore_patterns = NoPatterns
    /\ result = NoResult
    /\ results = <<>>
    /\ NoMain

InitCompareDirectories ==
    /\ pc = "compareDirectories"
    /\ source_path = SourceDir
    /\ target_path = TargetDir
    /\ source_content = NoContent
    /\ target_content = NoContent
    /\ \E present \in SUBSET TreePaths :
          fs \in {f \in [present -> TreeContents \cup {Unreadable}] :
                    \A path \in present : f[path] \in TreeChoices(path)}
    /\ decimal_precision \in Precisions
    /\ generate_catalog \in BOOLEAN
    /\ recursive \in BOOLEAN
    /\ ignore_patterns \in IgnoreChoices
    /\ result = NoResult
    /\ results = <<>>
    /\ NoMain

Init ==
    /\ TextIdle
    /\ InitCompareFiles \/ InitCompareDirectories

\* result = compareFiles(source_path, target_path, source_content,
\*                       target_content, decimal_precision, generate_catalog)
CompareFiles ==
    /\ pc = "compareFiles"
    /\ result' = compareFiles(source_path, target_path, source_content,
                              target_content, decimal_precision, generate_catalog)
    /\ pc' = "done"
    /\ UNCHANGED <<textVars, decimal_precision, fs, source_path, target_path,
                   source_content, target_content, generate_catalog, recursive,
                   ignore_patterns, results, mainVars>>

\* results = compareDirectories(source_path, target_path, recursive,
\*                               ignore_patterns, decimal_precision,
\*                               generate_catalog), or the TypeError of
\* get_file_paths escapes
CompareDirectories ==
    /\ pc = "compareDirectories"
    /\ IF \/ get_file_paths_raises(source_path, recursive, ignore_patterns)
          \/ get_file_paths_raises(target_path, recursive, ignore_patterns)
       THEN /\ pc' = "raised"
            /\ results' = results
       ELSE /\ pc' = "done"
            /\ \E source_files \in
                      Listings(get_file_paths(source_path, recursive, ignore_patterns)),
                  target_files \in
                      Listings(get_file_paths(target_path, recursive, ignore_patterns)) :
                  \E order \in Orders({basename(source_files[i]) :
                                          i \in 1..Len(source_files)}
                                      \cup {basename(target_files[i]) :
                                               i \in 1..Len(target_files)}) :
                      results' = compareDirectories(source_files, target_files, order,
                                                    source_path, target_path,
                                                    decimal_precision, generate_catalog)
    /\ UNCHANGED <<textVars, decimal_precision, fs, source_path, target_path,
                   source_content, target_content, generate_catalog, recursive,
                   ignore_patterns, result, mainVars>>

Next == CompareFiles \/ CompareDirectories

Spec == Init /\ [][Next]_vars

----------------------------------------------------------------------------
(* main: one run of the command line (src/main.py) *)

\* os.path.isfile, os.path.isdir
isfile(path) == path \in DOMAIN fs
isdir(path) == path \in dirs

\* generateHtmlReport(diff_results, args.output): whether the report file
\* gets written; open() failing is caught there (IOError) and only printed
generateHtmlReport == output_writable

\* the single-file branch of main
MainFiles ==
    IF read_file(source_path) = NoContent \/ read_file(target_path) = NoContent
    THEN /\ exit_code' = 1
         /\ UNCHANGED <<result, results, report>>
    ELSE IF fault = "compare"
    THEN /\ exit_code' = 1
         /\ UNCHANGED <<result, results, report>>
    ELSE /\ result' = compareFiles(source_path, target_path, read_file(source_path),
                                   read_file(target_path), decimal_precision,
                                   generate_catalog)
         /\ results' = results
         /\ IF fault = "report"
            THEN exit_code' = 1 /\ report' = report
            ELSE exit_code' = 0 /\ report' = generateHtmlReport

\* the directory branch of main
MainDirectories ==
    IF \/ fault = "compare"
       \/ get_file_paths_raises(source_path, recursive, ignore_patterns)
       \/ get_file_paths_raises(target_path, recursive, ignore_patterns)
    THEN /\ exit_code' = 1
         /\ UNCHANGED <<result, results, report>>
    ELSE /\ \E source_files \in
                   Listings(get_file_paths(source_path, recursive, ignore_patterns)),
               target_files \in
                   Listings(get_file_paths(target_path, recursive, ignore_patterns)) :
               \E order \in Orders({basename(source_files[i]) :
                                       i \in 1..Len(source_files)}
                                   \cup {basename(target_files[i]) :
                                            i \in 1..Len(target_files)}) :
                   results' = compareDirectories(source_files, target_files, order,
                                                 source_path, target_path,
                                                 decimal_precision, generate_catalog)
         /\ result' = result
         /\ IF fault = "report"
            THEN exit_code' = 1 /\ report' = report
            ELSE exit_code' = 0 /\ report' = generateHtmlReport

\* exit_code = main(): source_path, target_path, recursive, ignore_patterns,
\* decimal_precision and generate_catalog hold the parsed arguments; fault
\* says where an exception (any Exception, such as MemoryError) is raised
Main ==
    /\ pc = "main"
    /\ pc' = "exit"
    /\ IF isfile(source_path) /\ isfile(target_path)
       THEN MainFiles
       ELSE IF isdir(source_path) /\ isdir(target_path)
       THEN MainDirectories
       ELSE /\ exit_code' = 1
            /\ UNCHANGED <<result, results, report>>
    /\ UNCHANGED <<textVars, decimal_precision, fs, source_path, target_path,
                   source_content, target_content, generate_catalog, recursive,
                   ignore_patterns, dirs, output_writable, fault>>

\* the paths main is run on: a file or a directory on each side
MainSources == { <<"a", ".", "c", "s", "v">>, SourceDir }
MainTargets == { <<"b">>, TargetDir }

\* the files there may be, and what each may hold
MainFilePaths ==
    { <<"a", ".", "c", "s", "v">>, <<"b">>,
      <<"s", "/", "a", ".", "c", "s", "v">>, <<"t", "/", "a", ".", "c", "s", "v">> }

MainChoices(path) ==
    IF path = <<"b">> \/ startswith(path, TargetDir \o <<"/">>)
    THEN TreeContents \cup {Unreadable}
    ELSE { << <<"1", ".", "5", ",", "a">> >>, Unreadable }

\* ignore_patterns as argparse delivers them: a list, [] by default
MainIgnoreChoices == { <<>>, << <<"*", ".", "c", "s", "v">> >> }

InitMain ==
    /\ TextIdle
    /\ pc = "main"
    /\ source_path \in MainSources
    /\ target_path \in MainTargets
    /\ source_content = NoContent
    /\ target_content = NoContent
    /\ dirs \in SUBSET {SourceDir, TargetDir}
    /\ \E present \in SUBSET MainFilePaths :
          fs \in {f \in [present -> TreeContents \cup {Unreadable}] :
                    \A path \in present :
                        /\ f[path] \in MainChoices(path)
                        /\ dirname(path) = <<>> \/ dirname(path) \in dirs}
    /\ decimal_precision = MaxPrecision
    /\ generate_catalog \in BOOLEAN
    /\ recursive \in BOOLEAN
    /\ ignore_patterns \in MainIgnoreChoices
    /\ output_writable \in BOOLEAN
    /\ fault \in {"none", "compare", "report"}
    /\ report = FALSE
    /\ exit_code = -1
    /\ result = NoResult
    /\ results = <<>>

NextMain == Main

SpecMain == InitMain /\ [][NextMain]_vars

----------------------------------------------------------------------------
(* createDataCatalog applied to drawn contents *)

\* the fields of the lines: empty, text with a trailing blank, integers
\* whose numeric order is not their text order, a decimal
CatalogFields ==
    { <<>>, <<"h", " ">>, <<"2">>, <<"1", "0">>, <<"1", ".", "5">> }

\* lines of 1..MaxFields fields joined by d (the line of one empty field is
\* a blank line)
CatalogLines(d) ==
    {join(fields, d) : fields \in UNION {[1..m -> CatalogFields] : m \in 1..MaxFields}}

CatalogContents ==
    ContentsOf(CatalogLines(","), MaxCatalogLines)
        \cup ContentsOf(CatalogLines(";"), MaxCatalogLines)

\* lines in which the potential delimiters meet: up to three names with any
\* of them in between, and the empty line
DelimitedLines ==
    { <<>>, <<"a">> }
        \cup { <<"a", d, "b">> : d \in Range(potential_delimiters) }
        \cup { <<"a", d[1], "b", d[2], "c">> :
                  d \in Range(potential_delimiters) \X Range(potential_delimiters) }

DelimitedContents == ContentsOf(DelimitedLines, MaxLines)

CatalogPath == <<"a", ".", "c", "s", "v">>

\* the file holds the content; the caller hands the content over or leaves
\* it to createDataCatalog to read the file, which may also be missing or
\* unreadable
InitCatalog ==
    /\ pc = "createDataCatalog"
    /\ source_path = CatalogPath
    /\ \/ \E held \in CatalogContents \cup DelimitedContents :
             /\ fs = [path \in {CatalogPath} |-> held]
             /\ content \in {held, NoContent}
       \/ /\ fs \in { <<>>, [path \in {CatalogPath} |-> Unreadable] }
          /\ content = NoContent
    /\ value = None /\ normalized = None /\ data_type = None
    /\ line = None /\ normalized_line = None
    /\ once = None /\ twice = None
    /\ data_catalog = NoCatalog
    /\ decimal_precision = MaxPrecision
    /\ target_path = None
    /\ source_content = NoContent /\ target_content = NoContent
    /\ generate_catalog = FALSE /\ recursive = FALSE
    /\ ignore_patterns = NoPatterns
    /\ result = NoResult /\ results = <<>>
    /\ NoMain

\* data_catalog = createDataCatalog(source_path, content)
CreateDataCatalog ==
    /\ pc = "createDataCatalog"
    /\ data_catalog' = createDataCatalog(source_path,
                                         content_or_read(content, source_path),
                                         getsize(source_path))
    /\ pc' = "catalogued"
    /\ UNCHANGED <<value, decimal_precision, normalized, data_type, line,
                   normalized_line, content, once, twice, callVars>>

NextCatalog == CreateDataCatalog

SpecCatalog == InitCatalog /\ [][NextCatalog]_vars

----------------------------------------------------------------------------
(* createDataCatalog applied to long columns *)

\* data lines of two fields whose first field is empty, text, an integer
LongLines ==
    { <<",", "k">>, <<"x", ",", "k">>, <<"2", ",", "k">> }

\* lengths of a run of equal lines: up to the type sample and the value
\* sample of a column
RunLengths == {1, 2, TypeSample, SampleCap}

Repeat(ln, n) == [i \in 1..n |-> ln]

\* the lines of a sequence of runs
RunsToLines(runs) ==
    flatten(List([i \in 1..Len(runs) |-> Repeat(runs[i][1], runs[i][2])]))

\* data lines that put more than TopCount different values in the second
\* column
VariedLines ==
    << <<",", "a">>, <<",", "b">>, <<",", "c">>, <<",", "d">>, <<",", "e">>,
       <<",", "f">> >>

\* a header line of two names followed, after the varied lines or directly,
\* by up to MaxRuns runs of data lines
LongContents ==
    { << <<"h", ",", "g">> >> \o varied \o RunsToLines(runs) :
        varied \in {<<>>, VariedLines},
        runs \in UNION {[1..m -> LongLines \X RunLengths] : m \in 0..MaxRuns} }

InitLongCatalog ==
    /\ pc = "createDataCatalog"
    /\ source_path = CatalogPath
    /\ content \in LongContents
    /\ fs = [path \in {CatalogPath} |-> content]
    /\ value = None /\ normalized = None /\ data_type = None
    /\ line = None /\ normalized_line = None
    /\ once = None /\ twice = None
    /\ data_catalog = NoCatalog
    /\ decimal_precision = MaxPrecision
    /\ target_path = None
    /\ source_content = NoContent /\ target_content = NoContent
    /\ generate_catalog = FALSE /\ recursive = FALSE
    /\ ignore_patterns = NoPatterns
    /\ result = NoResult /\ results = <<>>
    /\ NoMain

\* every column's top_values is read, as the report does when it
\* serializes a catalog; the reads fill the columns' _value_counts
ReadTopValues ==
    /\ pc \in {"catalogued", "read"}
    /\ data_catalog' =
          [data_catalog EXCEPT
              !.columns = [header \in DOMAIN @ |-> with_value_counts(@[header])]]
    /\ IF pc = "catalogued"
       THEN /\ once' = [header \in DOMAIN data_catalog.columns |->
                           top_values(data_catalog.columns[header])]
            /\ twice' = twice
            /\ pc' = "read"
       ELSE /\ twice' = [header \in DOMAIN data_catalog.columns |->
                            top_values(data_catalog.columns[header])]
            /\ once' = once
            /\ pc' = "reread"
    /\ UNCHANGED <<value, decimal_precision, normalized, data_type, line,
                   normalized_line, content, callVars>>

NextLongCatalog == CreateDataCatalog \/ ReadTopValues

SpecLongCatalog == InitLongCatalog /\ [][NextLongCatalog]_vars

----------------------------------------------------------------------------
(* Properties of the normalizer and of the type inferrer *)

\* round-half-up of N / 10^k to p places, scaled by 10^p
HalfUpScaled(N, k, p) ==
    IF p >= k THEN N * Pow(10, p - k)
    ELSE (N + Pow(10, k - p) \div 2) \div Pow(10, k - p)

\* the value of a decimal token written with exactly p fractional digits,
\* rounded to nearest, ties away from zero
HalfUpText(v, p) ==
    LET q == HalfUpScaled(TokenMantissa(v), TokenScale(v), p)
    IN  (IF TokenNeg(v) THEN <<"-">> ELSE <<>>)
        \o NatToStr(q \div Pow(10, p))
        \o (IF p > 0 THEN <<".">> \o ZeroPad(q % Pow(10, p), p) ELSE <<>>)

\* C3: for every token matching -?\d+\.\d+ and every precision p >= 0,
\* normalizeNumber returns the token's value with exactly p digits after the
\* point, rounded to nearest, a tie rounding half up (0.125 at 2 gives 0.13,
\* 2.5 at 0 gives 3).
C3_RoundsHalfUp ==
    (pc = "done" /\ number_pattern_match(value) /\ decimal_precision >= 0)
        => normalized = HalfUpText(value, decimal_precision)

\* C4: normalization is idempotent: preprocessContent applied to its own
\* result at the same precision returns that result, line for line.
C4_Idempotent ==
    pc = "done" => twice = once

\* a content whose first line has a comma, normalized at precision 0, that
\* the first pass changed
C4_Witness ==
    /\ pc = "done"
    /\ decimal_precision = 0
    /\ content # <<>>
    /\ Contains(content[1], ",")
    /\ once # content
    /\ twice = once

\* C5: in a normalized line every comma-separated token that does not match
\* -?\d+\.\d+ after trimming appears as exactly its trimmed text, at the
\* same position, and the number of tokens of the line is unchanged.
C5_PlainTokensPassThrough ==
    pc = "done" =>
        LET ins  == split(line, ",")
            outs == split(normalized_line, ",")
        IN  /\ Len(outs) = Len(ins)
            /\ \A i \in 1..Len(ins) :
                   ~number_pattern_match(strip(ins[i])) => outs[i] = strip(ins[i])

\* a line of an integer and a padded text token, both rewritten to their
\* trimmed text
C5_Witness ==
    /\ pc = "done"
    /\ line = <<"4", "2", ",", " ", "a", "b", "c">>
    /\ normalized_line = <<"4", "2", ",", "a", "b", "c">>

DataTypes == {"null", "integer", "float", "date", "boolean", "string"}

\* a token written as a number: digits, with at most a sign, a point, an
\* exponent and digit-group marks around them
NumericToken(s) ==
    /\ \E i \in 1..Len(s) : s[i] \in Digits
    /\ \A i \in 1..Len(s) : s[i] \in Digits \cup {"+", "-", ".", "e", "E", "_"}

\* C7: inferDataType returns one of the six types by the first check that
\* succeeds, in the order null, integer, float, date, boolean, string; "1"
\* and "0" are integer, and a token is integer or float only if it is a
\* base-10 integer or a decimal literal.
C7_CheckOrder ==
    pc = "done" =>
        /\ data_type \in DataTypes
        /\ (data_type = "null") = (strip(value) = <<>>)
        /\ strip(value) \in {<<"1">>, <<"0">>} => data_type = "integer"
        /\ data_type \in {"integer", "float"} => NumericToken(strip(value))
        /\ (data_type = "date") =
               (/\ data_type \notin {"null", "integer", "float"}
                /\ date_patterns_match(strip(value)))
        /\ (data_type = "boolean") =
               (/\ data_type \notin {"null", "integer", "float", "date"}
                /\ ~date_patterns_match(strip(value))
                /\ lower(strip(value)) \in bool_values)

----------------------------------------------------------------------------
(* Properties of compareFiles and compareDirectories *)

\* compareFiles has returned
Compared == pc = "done" /\ result # NoResult

\* compareFiles has returned and had both contents in hand
ComparedReadable ==
    /\ Compared
    /\ result.source_content # NoContent
    /\ result.target_content # NoContent

\* C1: for readable contents S and T and every precision p, the diff_lines
\* compareFiles returns are empty exactly when preprocessContent(S, p) and
\* preprocessContent(T, p) are equal line for line, is_identical is true
\* exactly when diff_lines is empty, and a content compared with itself is
\* identical.
C1_EmptyDiffIffNormalizedEqual ==
    ComparedReadable =>
        /\ (result.diff_lines = <<>>) =
               (preprocessContent(result.source_content, decimal_precision)
                    = preprocessContent(result.target_content, decimal_precision))
        /\ result.is_identical = (result.diff_lines = <<>>)
        /\ result.source_content = result.target_content => result.is_identical

\* two contents that differ as given and are equal once normalized
C1_Witness ==
    /\ ComparedReadable
    /\ result.source_content # result.target_content
    /\ result.diff_lines = <<>>
    /\ result.is_identical

\* two tokens that are the same, or two decimal tokens that normalizeNumber
\* writes the same at precision p
SameUpToDigits(s, t, p) ==
    \/ s = t
    \/ /\ number_pattern_match(strip(s))
       /\ number_pattern_match(strip(t))
       /\ normalizeNumber(strip(s), p) = normalizeNumber(strip(t), p)

\* two contents equal except for the number of fractional digits some
\* decimal tokens are written with
EqualUpToDigits(S, T, p) ==
    /\ Len(S) = Len(T)
    /\ \A i \in 1..Len(S) :
          /\ Len(split(S[i], ",")) = Len(split(T[i], ","))
          /\ \A j \in 1..Len(split(S[i], ",")) :
                 SameUpToDigits(split(S[i], ",")[j], split(T[i], ",")[j], p)

\* C2: two contents that are equal except that some decimal tokens are
\* written with a different number of fractional digits, while rounding to
\* the same value at precision p, compare as identical with an empty diff.
C2_DigitsDoNotRegister ==
    (ComparedReadable /\ EqualUpToDigits(result.source_content,
                                         result.target_content, decimal_precision))
        => result.diff_lines = <<>> /\ result.is_identical

\* the DiffResult invariant
WellFormed(r) ==
    /\ ~(r.source_only /\ r.target_only)
    /\ r.source_only \/ r.target_only => ~r.is_identical
    /\ (r.diff_lines = <<>>) = r.is_identical

\* C8: every DiffResult compareFiles returns or compareDirectories lists is
\* exactly one of identical, differing, source-only, target-only, and its
\* diff_lines are empty exactly when is_identical is true.
C8_ResultsWellFormed ==
    /\ Compared => WellFormed(result)
    /\ \A i \in 1..Len(results) : WellFormed(results[i])

\* a directory comparison that lists a file of the source tree only and a
\* pair with an unreadable side
C8_Witness ==
    /\ pc = "done"
    /\ \E i, j \in 1..Len(results) :
          /\ results[i].source_only
          /\ results[j].diff_lines = <<ErrorReading>>

\* no file at the path, or one that does not decode
CannotOpen(path) == path \notin DOMAIN fs \/ fs[path] = Unreadable

\* a side of the compareFiles call had no content supplied and none could
\* be read
SideUnreadable ==
    \/ source_content = NoContent /\ CannotOpen(source_path)
    \/ target_content = NoContent /\ CannotOpen(target_path)

\* C9: when compareFiles cannot read a side whose content was not supplied,
\* it returns a DiffResult that is differing (not identical, not
\* source-only, not target-only), whose diff_lines is one diagnostic line,
\* and that carries no catalog.
C9_UnreadableIsDiffering ==
    (Compared /\ SideUnreadable) =>
        /\ ~result.is_identical
        /\ ~result.source_only
        /\ ~result.target_only
        /\ result.diff_lines = <<UnableToRead>>
        /\ result.source_catalog = NoCatalog
        /\ result.target_catalog = NoCatalog

\* the source file holds undecodable bytes, the target content is supplied
\* and the catalogs were asked for
C9_Witness ==
    /\ Compared
    /\ generate_catalog
    /\ source_content = NoContent
    /\ source_path \in DOMAIN fs
    /\ fs[source_path] = Unreadable
    /\ target_content # NoContent
    /\ result.diff_lines = <<UnableToRead>>

\* the rule deciding a side's catalog: the path ends with .csv in any
\* letter case, or the first line has a comma
CsvSide(path, lines) ==
    \/ endswith(lower(path), DotCsv)
    \/ lines # <<>> /\ Contains(lines[1], ",")

\* C10: with readable inputs, compareFiles returns a source catalog exactly
\* when generate_catalog is set and the source path ends with .csv
\* (case-insensitively) or the first source line has a comma; the target
\* catalog follows the same rule on the target alone.
C10_CatalogPerSide ==
    ComparedReadable =>
        /\ (result.source_catalog # NoCatalog) =
               (generate_catalog /\ CsvSide(source_path, result.source_content))
        /\ (result.target_catalog # NoCatalog) =
               (generate_catalog /\ CsvSide(target_path, result.target_content))

\* the target carries a catalog for its upper-case .CSV extension alone,
\* the source carries none
C10_Witness ==
    /\ ComparedReadable
    /\ generate_catalog
    /\ result.source_catalog = NoCatalog
    /\ result.target_catalog # NoCatalog
    /\ ~(result.target_content # <<>> /\ Contains(result.target_content[1], ","))

----------------------------------------------------------------------------
(* Properties of compareDirectories *)

\* compareDirectories has returned
DirsCompared == pc = "done" /\ result = NoResult

\* the base filenames get_file_paths lists under a directory
ListedNames(directory_path) ==
    {basename(path) : path \in get_file_paths(directory_path, recursive, ignore_patterns)}

\* the base filename a record stands for
RecordName(r) ==
    IF r.source_path # <<>> THEN basename(r.source_path) ELSE basename(r.target_path)

\* the record of a name listed on both sides: both paths end in the name
\* and, when both files were read, it is identical exactly when their
\* normalized contents are equal
PairRecord(r, name) ==
    /\ ~r.source_only /\ ~r.target_only
    /\ r.source_path # <<>> /\ basename(r.source_path) = name
    /\ r.target_path # <<>> /\ basename(r.target_path) = name
    /\ (SourceDir \o <<"/">> \o r.source_path) \in DOMAIN fs
    /\ (TargetDir \o <<"/">> \o r.target_path) \in DOMAIN fs
    /\ (fs[SourceDir \o <<"/">> \o r.source_path] # Unreadable
        /\ fs[TargetDir \o <<"/">> \o r.target_path] # Unreadable)
         => /\ r.source_content = fs[SourceDir \o <<"/">> \o r.source_path]
            /\ r.target_content = fs[TargetDir \o <<"/">> \o r.target_path]
            /\ r.is_identical =
                   (preprocessContent(r.source_content, decimal_precision)
                        = preprocessContent(r.target_content, decimal_precision))

\* C11: compareDirectories returns exactly one record for each base
\* filename listed under either directory and none for another name: a pair
\* record for a name listed on both sides, a source_only record with target
\* path "" for a name listed under the source only, a target_only record
\* with source path "" for a name listed under the target only.
C11_OneRecordPerName ==
    DirsCompared =>
        /\ Len(results) = Cardinality(ListedNames(source_path) \cup ListedNames(target_path))
        /\ \A i \in 1..Len(results) :
               RecordName(results[i]) \in ListedNames(source_path) \cup ListedNames(target_path)
        /\ \A i, j \in 1..Len(results) :
               RecordName(results[i]) = RecordName(results[j]) => i = j
        /\ \A i \in 1..Len(results) :
               IF RecordName(results[i]) \in ListedNames(source_path) \cap ListedNames(target_path)
               THEN PairRecord(results[i], RecordName(results[i]))
               ELSE IF RecordName(results[i]) \in ListedNames(source_path)
               THEN /\ results[i].source_only /\ ~results[i].target_only
                    /\ results[i].target_path = <<>>
               ELSE /\ results[i].target_only /\ ~results[i].source_only
                    /\ results[i].source_path = <<>>

\* a recursive comparison that pairs a file of a source subdirectory with
\* the file of that name at the target root, finds them identical, and
\* lists a second name under the source only
C11_Witness ==
    /\ DirsCompared
    /\ recursive
    /\ Len(results) = 2
    /\ \E i, j \in 1..2 :
          /\ results[i].source_path = <<"d", "/", "a", ".", "c", "s", "v">>
          /\ results[i].target_path = <<"a", ".", "c", "s", "v">>
          /\ results[i].is_identical
          /\ results[i].source_content # results[i].target_content
          /\ results[j].source_only
          /\ results[j].target_path = <<>>

\* both files of a pair record were read
PairRead(r) ==
    /\ ~r.source_only /\ ~r.target_only
    /\ r.diff_lines # <<ErrorReading>>

\* C12: in compareDirectories catalogs follow the literal .csv suffix, not
\* the content: a pair record carries both catalogs or neither, and carries
\* them only if generate_catalog is set and both paths end with .csv (a pair
\* that was read carries them exactly then); a source-only record carries a
\* source catalog only if generate_catalog is set and its path ends with
\* .csv, and no target catalog; target-only records likewise.
C12_CatalogsBySuffix ==
    DirsCompared =>
        \A i \in 1..Len(results) :
            LET r == results[i]
            IN  /\ (~r.source_only /\ ~r.target_only) =>
                      /\ (r.source_catalog = NoCatalog) = (r.target_catalog = NoCatalog)
                      /\ r.source_catalog # NoCatalog =>
                             /\ generate_catalog
                             /\ endswith(r.source_path, DotCsv)
                             /\ endswith(r.target_path, DotCsv)
                      /\ (PairRead(r) /\ generate_catalog
                          /\ endswith(r.source_path, DotCsv)
                          /\ endswith(r.target_path, DotCsv))
                             => r.source_catalog # NoCatalog
                /\ r.source_only =>
                      /\ r.target_catalog = NoCatalog
                      /\ r.source_catalog # NoCatalog =>
                             generate_catalog /\ endswith(r.source_path, DotCsv)
                /\ r.target_only =>
                      /\ r.source_catalog = NoCatalog
                      /\ r.target_catalog # NoCatalog =>
                             generate_catalog /\ endswith(r.target_path, DotCsv)

\* with catalogs asked for, a pair of .csv files carries both catalogs and
\* a pair of files without the suffix, whose first lines have commas,
\* carries none
C12_Witness ==
    /\ DirsCompared
    /\ generate_catalog
    /\ \E i, j \in 1..Len(results) :
          /\ PairRead(results[i])
          /\ endswith(results[i].source_path, DotCsv)
          /\ results[i].source_catalog # NoCatalog
          /\ results[i].target_catalog # NoCatalog
          /\ PairRead(results[j])
          /\ ~endswith(results[j].source_path, DotCsv)
          /\ Contains(results[j].source_content[1], ",")
          /\ Contains(results[j].target_content[1], ",")
          /\ results[j].source_catalog = NoCatalog
          /\ results[j].target_catalog = NoCatalog

\* the file a record's source / target path names
SourceFile(r) == SourceDir \o <<"/">> \o r.source_path
TargetFile(r) == TargetDir \o <<"/">> \o r.target_path

\* C13: a file that cannot be read does not abort compareDirectories: the
\* call returns with one record per filename; a matched pair with an
\* unreadable side gets a record that is not identical and has one
\* diagnostic diff line; an unreadable file without a match still gets its
\* source-only or target-only record, with empty content.
C13_UnreadableDoesNotAbort ==
    /\ pc = "raised" => ignore_patterns = NoPatterns
    /\ DirsCompared =>
          /\ Len(results) = Cardinality(ListedNames(source_path) \cup ListedNames(target_path))
          /\ \A i \in 1..Len(results) :
                LET r == results[i]
                IN  /\ (~r.source_only /\ ~r.target_only
                        /\ (fs[SourceFile(r)] = Unreadable \/ fs[TargetFile(r)] = Unreadable))
                          => /\ ~r.is_identical
                             /\ r.diff_lines = <<ErrorReading>>
                    /\ (r.source_only /\ fs[SourceFile(r)] = Unreadable)
                          => r.source_content = <<>> /\ Len(r.diff_lines) = 1
                    /\ (r.target_only /\ fs[TargetFile(r)] = Unreadable)
                          => r.target_content = <<>> /\ Len(r.diff_lines) = 1

\* a pair with an unreadable side is followed in the results by the record
\* of an unreadable file found under the source only
C13_Witness ==
    /\ DirsCompared
    /\ Len(results) = 2
    /\ results[1].diff_lines = <<ErrorReading>>
    /\ ~results[1].is_identical
    /\ results[2].source_only
    /\ fs[SourceFile(results[2])] = Unreadable
    /\ results[2].source_content = <<>>

----------------------------------------------------------------------------
(* Properties of main *)

\* main has returned
Exited == pc = "exit"

\* the run is in single-file mode, in directory mode
FileMode == isfile(source_path) /\ isfile(target_path)
DirectoryMode == ~FileMode /\ isdir(source_path) /\ isdir(target_path)

\* the runs the exit code 1 is for: an unreadable file in single-file mode,
\* paths that are not both files or both directories, an exception
MustFail ==
    \/ FileMode /\ (CannotOpen(source_path) \/ CannotOpen(target_path))
    \/ ~FileMode /\ ~DirectoryMode
    \/ fault # "none"

\* the failing runs return 1 and leave no report
FailuresExitOne == (Exited /\ MustFail) => (exit_code = 1 /\ ~report)

\* C14: main returns 1 and generates no report when, in single-file mode,
\* either file cannot be read, when the two paths are not both files or
\* both directories, or when an exception escapes comparison or report
\* generation; every other run returns 0, and a run that returns 0 has
\* generated the report.
C14_ExitCodes ==
    Exited =>
        /\ MustFail => (exit_code = 1 /\ ~report)
        /\ ~MustFail => exit_code = 0
        /\ exit_code = 0 => report

----------------------------------------------------------------------------
(* Properties of createDataCatalog *)

\* createDataCatalog has returned data_catalog
Catalogued == pc = "catalogued"

\* the keys of the columns mapping
ColumnNames == DOMAIN data_catalog.columns

\* C15: in every catalog createDataCatalog returns, whatever the content
\* (rows of differing lengths, blank lines, repeated header names), every
\* ColumnInfo has null_count <= row_count.
C15_NullsWithinRows ==
    Catalogued =>
        \A header \in ColumnNames :
            data_catalog.columns[header].null_count
                <= data_catalog.columns[header].row_count

\* the header names are also the keys of the columns mapping, and
\* column_count counts the headers
HeadersAreKeys ==
    Catalogued =>
        /\ Len(data_catalog.headers) = data_catalog.column_count
        /\ Range(data_catalog.headers) = ColumnNames

\* C16: in every catalog createDataCatalog returns (empty or blank-only
\* content, a single row, several rows, repeated header names) the length
\* of headers, column_count and the number of entries of the columns
\* mapping are equal, and every name in headers is a key of columns.
C16_HeadersMatchColumns ==
    Catalogued =>
        /\ Len(data_catalog.headers) = data_catalog.column_count
        /\ data_catalog.column_count = Cardinality(ColumnNames)
        /\ \A i \in 1..Len(data_catalog.headers) :
              data_catalog.headers[i] \in ColumnNames

\* C17: in every catalog createDataCatalog returns, the data_type of every
\* column is one of integer, float, date, boolean, string, null, also for
\* a column in which every value is empty or missing.
C17_TypesAreInferred ==
    Catalogued =>
        \A header \in ColumnNames :
            data_catalog.columns[header].data_type \in DataTypes

\* a column with a value that is not empty has one of the six types
ValuedColumnsTyped ==
    Catalogued =>
        \A header \in ColumnNames :
            data_catalog.columns[header].unique_values # {}
                => data_catalog.columns[header].data_type \in DataTypes

\* the lines createDataCatalog works on: the content handed over, else the
\* lines of the file, none when it cannot be read
GivenLines ==
    IF content # NoContent THEN content
    ELSE IF CannotOpen(source_path) THEN <<>> ELSE fs[source_path]

NonBlankLine(ln) == \E i \in 1..Len(ln) : ln[i] \notin Whitespace

NonBlankLines == SelectSeq(GivenLines, NonBlankLine)

\* number of fields of a line: one more than its delimiters
FieldCount(ln, d) == Cardinality({i \in 1..Len(ln) : ln[i] = d}) + 1

OnlyRow == split(NonBlankLines[1], data_catalog.delimiter)

\* the profile of column i, the i-th field of the only row taken as data
SingleFieldProfiled(i) ==
    /\ GenericHeader(i) \in ColumnNames
    /\ data_catalog.columns[GenericHeader(i)].row_count = 1
    /\ IF strip(OnlyRow[i]) # <<>>
       THEN /\ data_catalog.columns[GenericHeader(i)].unique_values
                  = {strip(OnlyRow[i])}
            /\ data_catalog.columns[GenericHeader(i)].data_type
                  = inferDataType(strip(OnlyRow[i]))
            /\ inferDataType(strip(OnlyRow[i])) \in {"integer", "float"}
                  => /\ data_catalog.columns[GenericHeader(i)].min_value
                           = FloatValue(strip(OnlyRow[i]))
                     /\ data_catalog.columns[GenericHeader(i)].max_value
                           = FloatValue(strip(OnlyRow[i]))
       ELSE /\ data_catalog.columns[GenericHeader(i)].null_count = 1
            /\ data_catalog.columns[GenericHeader(i)].unique_values = {}

LeastOf(x, texts) ==
    /\ \E v \in texts : float_parses(v) /\ FloatValue(v) = x
    /\ \A v \in texts : float_parses(v) => ~FloatLess(FloatValue(v), x)

GreatestOf(x, texts) ==
    /\ \E v \in texts : float_parses(v) /\ FloatValue(v) = x
    /\ \A v \in texts : float_parses(v) => ~FloatLess(x, FloatValue(v))

\* min_value and max_value of a column are the bounds of its values
BoundsTracked(ci) ==
    /\ ci.min_value # NoValue
    /\ ci.max_value # NoValue
    /\ ~FloatLess(ci.max_value, ci.min_value)
    /\ LeastOf(ci.min_value, ci.unique_values)
    /\ GreatestOf(ci.max_value, ci.unique_values)

\* C20: on input with a header and data rows, a column's type is fixed
\* before min/max accumulation is gated on it: every column whose inferred
\* type is integer or float has min_value and max_value set, min_value <=
\* max_value, equal to the smallest and the largest numeric value among the
\* column's non-empty values; columns of any other type have both unset.
C20_BoundsGatedOnType ==
    (Catalogued /\ Len(NonBlankLines) >= 2) =>
        \A header \in ColumnNames :
            IF data_catalog.columns[header].data_type \in {"integer", "float"}
            THEN BoundsTracked(data_catalog.columns[header])
            ELSE /\ data_catalog.columns[header].min_value = NoValue
                 /\ data_catalog.columns[header].max_value = NoValue

\* with header names that are all distinct no column gets a min_value or a
\* max_value from data rows
DistinctHeadersNoBounds ==
    (Catalogued /\ Len(NonBlankLines) >= 2
        /\ Cardinality(ColumnNames) = Len(data_catalog.headers)) =>
        \A header \in ColumnNames :
            /\ data_catalog.columns[header].min_value = NoValue
            /\ data_catalog.columns[header].max_value = NoValue

\* the catalog comes from a header line followed by data lines
MultiRow == Catalogued /\ Len(NonBlankLines) >= 2

\* the data rows: the non-blank lines after the first, split on the
\* catalog's delimiter
DataRows ==
    [r \in 1..(Len(NonBlankLines) - 1) |->
        split(NonBlankLines[r + 1], data_catalog.delimiter)]

\* the trimmed values at field i (from 1) of the data rows that have one
ValuesAt(i) ==
    LET Has(row) == Len(row) >= i
        having == SelectSeq(DataRows, Has)
    IN  [r \in 1..Len(having) |-> strip(having[r][i])]

\* the header names are all distinct
DistinctHeaders == Cardinality(ColumnNames) = Len(data_catalog.headers)

\* the type voted by the first non-empty values of a list of values
VotedType(values) == most_common(inferred_types(SelectSeq(values, NonEmpty)))

\* the type of a column is voted by the first non-empty values of the
\* whole column
TypeFromColumn ==
    (MultiRow /\ DistinctHeaders) =>
        \A i \in 1..Len(data_catalog.headers) :
            SelectSeq(ValuesAt(i), NonEmpty) # <<>>
                => data_catalog.columns[data_catalog.headers[i]].data_type
                       = VotedType(ValuesAt(i))

\* C21: in a multi-row catalog a column's data_type is the most frequent
\* inferDataType result (the first encountered on a tie) over the first 20
\* non-empty values of the column's sample of at most 100 values; values
\* outside the sample have no influence on the type.
C21_TypeFromSample ==
    MultiRow =>
        \A header \in ColumnNames :
            data_catalog.columns[header].data_type
                = IF SelectSeq(data_catalog.columns[header].sample_values, NonEmpty) # <<>>
                  THEN VotedType(data_catalog.columns[header].sample_values)
                  ELSE "unknown"

\* the position of the last header bearing the name
LastBearing(header) ==
    CHOOSE i \in 1..Len(data_catalog.headers) :
        /\ data_catalog.headers[i] = header
        /\ \A j \in (i + 1)..Len(data_catalog.headers) :
              data_catalog.headers[j] # header

\* the ColumnInfo ci describes the values of one column and nothing else
DescribesAlone(ci, values) ==
    /\ ci.null_count = Len(values) - Len(SelectSeq(values, NonEmpty))
    /\ ci.unique_values = Range(SelectSeq(values, NonEmpty))
    /\ ci.sample_values = Prefix(values, SampleCap)
    /\ ci.data_type = IF SelectSeq(values, NonEmpty) # <<>>
                      THEN VotedType(values) ELSE "unknown"
    /\ ci.min_value # NoValue
          => \E v \in Range(values) : float_parses(v) /\ FloatValue(v) = ci.min_value
    /\ ci.max_value # NoValue
          => \E v \in Range(values) : float_parses(v) /\ FloatValue(v) = ci.max_value

\* C22: when a header name repeats, the ColumnInfo stored under the name
\* describes only the last column bearing it: its null_count,
\* unique_values, sample_values, data_type and min/max are those of that
\* column alone, with no contribution from earlier columns of the name.
C22_LastWriteWins ==
    MultiRow =>
        \A header \in ColumnNames :
            DescribesAlone(data_catalog.columns[header], ValuesAt(LastBearing(header)))

\* a name borne by one column describes that column alone
SingleBearerAlone ==
    (MultiRow /\ DistinctHeaders) =>
        \A header \in ColumnNames :
            DescribesAlone(data_catalog.columns[header], ValuesAt(LastBearing(header)))

\* the data rows that have a field i, with an empty trimmed value in it and
\* with a value in it
RowsEmptyAt(i) ==
    {r \in 1..Len(DataRows) : Len(DataRows[r]) >= i /\ strip(DataRows[r][i]) = <<>>}

RowsValuedAt(i) ==
    {r \in 1..Len(DataRows) : Len(DataRows[r]) >= i /\ strip(DataRows[r][i]) # <<>>}

\* C23: in a multi-row catalog with distinct header names, for each column
\* index i, null_count is the number of data rows that have a field at i
\* whose trimmed value is empty and unique_values is the set of non-empty
\* trimmed values at i; a data row with no field at i contributes to
\* neither and is still counted in the column's row_count.
C23_ShortRowsContributeNothing ==
    (MultiRow /\ DistinctHeaders) =>
        \A i \in 1..Len(data_catalog.headers) :
            /\ data_catalog.columns[data_catalog.headers[i]].null_count
                  = Cardinality(RowsEmptyAt(i))
            /\ data_catalog.columns[data_catalog.headers[i]].unique_values
                  = {strip(DataRows[r][i]) : r \in RowsValuedAt(i)}
            /\ data_catalog.columns[data_catalog.headers[i]].row_count
                  = Len(DataRows)

\* two distinct headers and two data rows: the first row stops before the
\* second column, the second row has it empty
C23_Witness ==
    /\ MultiRow
    /\ DistinctHeaders
    /\ Len(data_catalog.headers) = 2
    /\ Len(DataRows) = 2
    /\ Len(DataRows[1]) = 1
    /\ RowsEmptyAt(2) = {2}
    /\ data_catalog.columns[data_catalog.headers[2]].null_count = 1
    /\ data_catalog.columns[data_catalog.headers[2]].unique_values = {}
    /\ data_catalog.columns[data_catalog.headers[2]].row_count = 2
    /\ data_catalog.columns[data_catalog.headers[1]].unique_values # {}

\* where an element is first encountered in a list
FirstPos(xs, x) == CHOOSE i \in 1..Len(xs) : xs[i] = x /\ \A j \in 1..(i - 1) : xs[j] # x

\* x comes before y in descending count over xs, first encountered first on
\* a tie
MoreFrequent(xs, x, y) ==
    \/ Count(xs, x) > Count(xs, y)
    \/ Count(xs, x) = Count(xs, y) /\ FirstPos(xs, x) < FirstPos(xs, y)

\* t lists, with their counts, the at most TopCount most frequent elements
\* of xs, in descending count with ties in first-encountered order
IsTopList(t, xs) ==
    /\ Len(t) = Min(TopCount, Cardinality(Range(xs)))
    /\ \A a \in 1..Len(t) :
          /\ t[a][1] \in Range(xs)
          /\ t[a][2] = Count(xs, t[a][1])
          /\ \A b \in (a + 1)..Len(t) : MoreFrequent(xs, t[a][1], t[b][1])
          /\ \A x \in Range(xs) \ {t[b][1] : b \in 1..Len(t)} :
                MoreFrequent(xs, t[a][1], x)

\* the sample of a column is the first SampleCap values of the column, the
\* empty ones included
SampleIsPrefix ==
    (MultiRow /\ DistinctHeaders) =>
        \A i \in 1..Len(data_catalog.headers) :
            data_catalog.columns[data_catalog.headers[i]].sample_values
                = Prefix(ValuesAt(i), SampleCap)

\* top_values lists the most frequent values of the sample, and a second
\* read returns what the first read returned
TopValuesOfSample ==
    /\ pc \in {"read", "reread"} =>
          \A header \in DOMAIN once :
              IsTopList(once[header], data_catalog.columns[header].sample_values)
    /\ pc = "reread" => twice = once

\* C24: a column's sample holds at most 100 values, the first non-empty
\* values of the column in row order (empty values are counted as nulls and
\* not retained); top_values lists the at most 5 most frequent values of
\* that sample with their counts, in descending count with ties in
\* first-encountered order, and repeated reads return the same list.
C24_SampleAndTopValues ==
    /\ (MultiRow /\ DistinctHeaders) =>
          \A i \in 1..Len(data_catalog.headers) :
              data_catalog.columns[data_catalog.headers[i]].sample_values
                  = Prefix(SelectSeq(ValuesAt(i), NonEmpty), SampleCap)
    /\ pc \in {"read", "reread"} =>
          \A header \in DOMAIN once :
              IsTopList(once[header], data_catalog.columns[header].sample_values)
    /\ pc = "reread" => twice = once

\* a read of top_values that had more than TopCount values to choose from
TopValuesCapped ==
    /\ pc = "reread"
    /\ \E header \in DOMAIN once :
          /\ Len(once[header]) = TopCount
          /\ Cardinality(Range(data_catalog.columns[header].sample_values)) > TopCount
          /\ once[header][1][2] > once[header][2][2]
          /\ once[header][2][2] = once[header][3][2]

\* the first line holds the character
FirstLineHas(d) == \E i \in 1..Len(GivenLines[1]) : GivenLines[1][i] = d

\* comma, semicolon, tab, pipe in that priority, comma when none occurs
ExpectedDelimiter ==
    IF FirstLineHas(",") THEN ","
    ELSE IF FirstLineHas(";") THEN ";"
    ELSE IF FirstLineHas("\t") THEN "\t"
    ELSE IF FirstLineHas("|") THEN "|"
    ELSE ","

\* C25: createDataCatalog picks as delimiter the first of comma, semicolon,
\* tab, pipe that occurs in the first line of the content, comma when none
\* occurs; every non-blank line, header included, is split on that one
\* delimiter; empty content gives zero rows, zero columns and no headers.
C25_DelimiterByPriority ==
    Catalogued =>
        IF GivenLines = <<>>
        THEN /\ data_catalog.row_count = 0
             /\ data_catalog.column_count = 0
             /\ data_catalog.headers = <<>>
             /\ ColumnNames = {}
        ELSE /\ data_catalog.delimiter = ExpectedDelimiter
             /\ NonBlankLines # <<>> =>
                   data_catalog.column_count
                       = Len(split(NonBlankLines[1], ExpectedDelimiter))
             /\ Len(NonBlankLines) >= 2 =>
                   /\ data_catalog.headers
                         = strip_all(split(NonBlankLines[1], ExpectedDelimiter))
                   /\ DistinctHeaders =>
                         \A i \in 1..Len(data_catalog.headers) :
                             data_catalog.columns[data_catalog.headers[i]].sample_values
                                 = LET Has(row) == Len(row) >= i
                                       having ==
                                           SelectSeq(
                                               [r \in 1..(Len(NonBlankLines) - 1) |->
                                                   split(NonBlankLines[r + 1],
                                                         ExpectedDelimiter)],
                                               Has)
                                   IN  [r \in 1..Len(having) |-> strip(having[r][i])]

\* a first line with a pipe and a semicolon and no comma: the header and
\* the data line are split on the semicolon, the pipe stays in the values
C25_Witness ==
    /\ Catalogued
    /\ Len(GivenLines) = 2
    /\ FirstLineHas("|") /\ FirstLineHas(";") /\ ~FirstLineHas(",")
    /\ data_catalog.delimiter = ";"
    /\ data_catalog.column_count = 2
    /\ data_catalog.row_count = 1
    /\ \E header \in ColumnNames :
          \E v \in data_catalog.columns[header].unique_values :
              \E i \in 1..Len(v) : v[i] = "|"

----------------------------------------------------------------------------
(* Properties of the two entry points together *)

\* lines that are the same text on the two sides are the same text once
\* each side is normalized
SameRawSameNormalized(S, T, p) ==
    \A i \in 1..Len(S), j \in 1..Len(T) :
        S[i] = T[j] => preprocessContent(S, p)[i] = preprocessContent(T, p)[j]

\* C26: in one comparison both sides are normalized under the same rule: a
\* line whose raw text is identical on both sides normalizes to identical
\* text on both sides (also when only one side's first line has a comma),
\* in compareFiles and for every pair compareDirectories compares.
C26_SameRuleBothSides ==
    /\ ComparedReadable =>
          SameRawSameNormalized(result.source_content, result.target_content,
                                decimal_precision)
    /\ DirsCompared =>
          \A i \in 1..Len(results) :
              PairRead(results[i]) =>
                  SameRawSameNormalized(results[i].source_content,
                                        results[i].target_content, decimal_precision)

\* the two sides are normalized alike when their first lines both have a
\* comma or both have none
SameRuleWhenFirstLinesAgree ==
    (ComparedReadable
        /\ result.source_content # <<>> /\ result.target_content # <<>>
        /\ Contains(result.source_content[1], ",")
               = Contains(result.target_content[1], ","))
        => SameRawSameNormalized(result.source_content, result.target_content,
                                 decimal_precision)

\* the records whose source path, target path names the file
SourceRecordsOf(path) ==
    {i \in 1..Len(results) :
        results[i].source_path # <<>> /\ SourceFile(results[i]) = path}

TargetRecordsOf(path) ==
    {i \in 1..Len(results) :
        results[i].target_path # <<>> /\ TargetFile(results[i]) = path}

\* C27: in compareDirectories, recursive or not, every file listed under
\* either root after ignore filtering is accounted for: each listed source
\* file is the source_path of exactly one record and each listed target
\* file is the target_path of exactly one record.
C27_EveryFileAccounted ==
    DirsCompared =>
        /\ \A path \in get_file_paths(source_path, recursive, ignore_patterns) :
              Cardinality(SourceRecordsOf(path)) = 1
        /\ \A path \in get_file_paths(target_path, recursive, ignore_patterns) :
              Cardinality(TargetRecordsOf(path)) = 1

\* without recursion every listed file has its record
FlatFilesAccounted ==
    (DirsCompared /\ ~recursive) =>
        /\ \A path \in get_file_paths(source_path, recursive, ignore_patterns) :
              Cardinality(SourceRecordsOf(path)) = 1
        /\ \A path \in get_file_paths(target_path, recursive, ignore_patterns) :
              Cardinality(TargetRecordsOf(path)) = 1

\* compareDirectories has returned or raised, having been called with
\* ignore_patterns left at its default
DefaultPatternsCall ==
    /\ pc \in {"done", "raised"}
    /\ result = NoResult
    /\ ignore_patterns = NoPatterns

\* the files under the two roots that a listing visits
VisitedFiles ==
    visited_files(source_path, recursive) \cup visited_files(target_path, recursive)

\* C28: compareDirectories called without ignore patterns behaves as with
\* an empty pattern list: for directories that contain files it raises
\* nothing, excludes no file, and returns one record per filename.
C28_DefaultPatternsAsEmpty ==
    (DefaultPatternsCall /\ VisitedFiles # {}) =>
        /\ pc = "done"
        /\ Len(results) = Cardinality({basename(path) : path \in VisitedFiles})
        /\ \A path \in VisitedFiles :
              \E i \in 1..Len(results) : RecordName(results[i]) = basename(path)

\* the default raises as soon as there is a file to list, and returns no
\* record when there is none
DefaultRaisesOnFiles ==
    DefaultPatternsCall =>
        IF VisitedFiles # {} THEN pc = "raised" ELSE pc = "done" /\ results = <<>>

\* what a record keeps of its inputs: the contents and the catalogs
Kept(r) == <<r.source_content, r.target_content, r.source_catalog, r.target_catalog>>

\* the lines compareFiles had for a side: supplied, else read
RawLines(arg, path) == IF arg # NoContent THEN arg ELSE fs[path]

\* the catalog, if there is one, is the catalog of the raw lines
CatalogOfRaw(cat, path, lines) ==
    cat # NoCatalog => cat = createDataCatalog(path, lines, getsize(path))

\* C29: the decimal precision influences only the edit script and the
\* identical verdict: for fixed inputs and any two precisions the records of
\* compareFiles, and of compareDirectories, have the same source_content and
\* target_content, equal to the raw lines that were read or supplied, and
\* equal catalogs, built from the raw lines.
C29_PrecisionOnlyInDiff ==
    /\ Compared =>
          \A q \in Precisions :
              Kept(compareFiles(source_path, target_path, source_content,
                                target_content, q, generate_catalog))
                  = Kept(result)
    /\ ComparedReadable =>
          /\ result.source_content = RawLines(source_content, source_path)
          /\ result.target_content = RawLines(target_content, target_path)
          /\ CatalogOfRaw(result.source_catalog, source_path, result.source_content)
          /\ CatalogOfRaw(result.target_catalog, target_path, result.target_content)
    /\ DirsCompared =>
          \A i \in 1..Len(results) :
              PairRead(results[i]) =>
                  /\ results[i].source_content = fs[SourceFile(results[i])]
                  /\ results[i].target_content = fs[TargetFile(results[i])]
                  /\ CatalogOfRaw(results[i].source_catalog, SourceFile(results[i]),
                                  results[i].source_content)
                  /\ CatalogOfRaw(results[i].target_catalog, TargetFile(results[i]),
                                  results[i].target_content)
                  /\ \A q \in Precisions :
                        Kept(compare_common(
                                 SourceFile(results[i]), TargetFile(results[i]),
                                 read_file(SourceFile(results[i])),
                                 read_file(TargetFile(results[i])),
                                 results[i].source_path, results[i].target_path,
                                 q, generate_catalog))
                            = Kept(results[i])

\* two contents that the precision makes identical: the record keeps them
\* as they were given, different from their normalized form and from each
\* other, and carries the catalog of the raw source lines
C29_Witness ==
    /\ ComparedReadable
    /\ generate_catalog
    /\ result.is_identical
    /\ result.source_content # result.target_content
    /\ preprocessContent(result.source_content, decimal_precision)
           # result.source_content
    /\ result.source_catalog # NoCatalog
    /\ result.source_catalog
           = createDataCatalog(source_path, result.source_content, getsize(source_path))

\* the edit-script lines after the two file-header lines
AfterHeaders(diff_lines) == SubSeq(diff_lines, 3, Len(diff_lines))

\* what compareFiles returns for the two files of a record, their contents
\* supplied
AsCompareFiles(r) ==
    compareFiles(SourceFile(r), TargetFile(r), r.source_content, r.target_content,
                 decimal_precision, generate_catalog)

\* C30: the two entry points agree on the diff: for a filename present in
\* both trees with readable files, the record of compareDirectories has the
\* same is_identical and the same edit-script lines after the two
\* file-header lines as compareFiles returns for the same two contents at
\* the same precision.
C30_EntryPointsAgree ==
    DirsCompared =>
        \A i \in 1..Len(results) :
            PairRead(results[i]) =>
                /\ results[i].is_identical = AsCompareFiles(results[i]).is_identical
                /\ AfterHeaders(results[i].diff_lines)
                       = AfterHeaders(AsCompareFiles(results[i]).diff_lines)
                /\ Len(results[i].diff_lines)
                       = Len(AsCompareFiles(results[i]).diff_lines)

\* a pair found different, whose edit script is that of compareFiles under
\* other file-header lines
C30_Witness ==
    /\ DirsCompared
    /\ \E j \in 1..Len(results) :
          /\ PairRead(results[j])
          /\ ~results[j].is_identical
          /\ results[j].source_content # results[j].target_content
          /\ Len(results[j].diff_lines) > 2
          /\ results[j].diff_lines[1] # AsCompareFiles(results[j]).diff_lines[1]
          /\ AfterHeaders(results[j].diff_lines)
                 = AfterHeaders(AsCompareFiles(results[j]).diff_lines)

====
